---- MODULE Spec2Model ----
(***************************************************************************)
(* Acquisition pipeline of MOVIES_MAGIC_CLUB-2.0:                          *)
(*   - TamilMVScraper.select_best_torrent   (automation/tamilmv_scraper.py)*)
(*   - SeedrHandler.process_one_movie       (automation/seedr_handler.py)  *)
(*   - PPDUploader.remote_upload            (automation/ppd_uploader.py)   *)
(*   - MovieProcessor.process_single_movie  (automation/movie_processor.py)*)
(* Each component has its own specification over the shared variables; the *)
(* variables of the other components stay at their initial values.         *)
(***************************************************************************)
EXTENDS Integers, Sequences, FiniteSets, TLC

VARIABLES
    \* ---- select_best_torrent ----
    torrents,       \* the candidate list passed to select_best_torrent
    best_torrent,   \* index into torrents of the returned dict, 0 for None
    selPc,          \* "call" before the call, "returned" after it
    \* ---- SeedrHandler.process_one_movie ----
    fpc,            \* the step process_one_movie is at
    transfer_id,    \* what add_magnet returned
    poll_i,         \* wait_for_download's loop index i while it runs
    folder_id,      \* what wait_for_download returned as folder id
    listed,         \* the files list_folder returned (<<>> when none)
    file_id,        \* int(file_id) of the largest file
    direct_link,    \* what process_one_movie returns ("pending" until then)
    raised,         \* an exception left process_one_movie
    job_state,      \* submitted, polling, completed, failed, timed_out
    teardowns,      \* the calls of delete_transfer_data made
    calls,          \* the folder, file and delete requests sent, in order
    polled,         \* what the latest poll of wait_for_download read
    \* ---- PPDUploader.remote_upload ----
    upc,            \* the step remote_upload is at
    hosts,          \* which of the host settings are non-empty
    watch_url,      \* remote_upload's locals; "None" for None
    download_url,
    lulu_id,
    dg_id,
    ppd_result,     \* "pending", "None" or "dict": what remote_upload returns
    up_raised,      \* an exception left remote_upload
    watch,          \* what _upload_to_lulu returned, if it was called
    down,           \* what _upload_to_dg returned, if it was called
    gen,            \* what _upload_generic_ppd returned, if it was called
    \* ---- MovieProcessor.process_single_movie ----
    mpc,            \* the step process_single_movie is at
    movies,         \* the documents of the movies collection, in insertion order
    runs,           \* the calls of process_single_movie made so far
    year,           \* the year argument of the calls: "None" or "2024"
    m_direct_link,  \* process_single_movie's local direct_link
    poster_data,    \* what search_movie returned
    m_ppd_result,   \* what remote_upload returned
    poster_path,    \* process_single_movie's local poster_path
    movie_id,       \* what _save_to_database returned, 0 for None
    success,        \* result["success"] of the latest call
    m_title,        \* the movie_title argument of the call
    m_status,       \* result["status"] of the latest call
    fetch_task,     \* the gathered process_one_movie: none, running, done, raised
    search_task,    \* the gathered search_movie: none, running, done
    steps,          \* what the current call has done so far, in order
    db_outcome,     \* how the save of the current call went ("none" before it)
    errors,         \* result["errors"] of the latest call
    \* ---- MovieProcessor.auto_scan_tamilmv ----
    bpc,            \* the step auto_scan_tamilmv is at
    b_movies,       \* the list get_latest_movies returned
    b_idx,          \* the position of the for loop in it
    summary,        \* the summary dict (without its movies list)
    b_connected,    \* whether get_db() gave a handle
    b_aborted,      \* the outer except branch was taken
    b_log,          \* what was done for which item, in order
    \* ---- background tasks of the admin routes ----
    tasks,          \* per request: which task it added and where that task is
    account,        \* the transfers on the Seedr account, oldest first
    \* ---- get_torrent_links and _extract_size ----
    parent_text,    \* the text around a magnet link, as tokens
    linkPc,         \* "link" before the link is read, "read" after it
    \* ---- verification wall ----
    wall_enabled,   \* the "enabled" setting of the wall
    verified,       \* the visitors mark_verified was called for
    stored_tokens,  \* the tokens save_verify_token stored
    free_used,      \* per visitor, the calls of increment_free_used
    marks,          \* which request marked whom verified, with which token
    served,         \* the redirects to a movie's watch or download URL
    response        \* the latest request and what it was answered with

selVars == <<torrents, best_torrent, selPc>>

fetchVars == <<fpc, transfer_id, poll_i, folder_id, listed, file_id,
               direct_link, raised, job_state, teardowns, calls, polled>>

upVars == <<upc, hosts, watch_url, download_url, lulu_id, dg_id, ppd_result,
            up_raised, watch, down, gen>>

catVars == <<mpc, movies, runs, year, m_direct_link, poster_data,
             m_ppd_result, poster_path, movie_id, success, m_title, m_status,
             fetch_task, search_task, steps, db_outcome, errors>>

batchVars == <<bpc, b_movies, b_idx, summary, b_connected, b_aborted, b_log>>

reqVars == <<tasks, account>>

linkVars == <<parent_text, linkPc>>

wallVars == <<wall_enabled, verified, stored_tokens, free_used, marks,
              served, response>>

vars == <<selVars, fetchVars, upVars, catVars, batchVars, reqVars, linkVars,
          wallVars>>

\* What each component leaves alone.
notSelVars   == <<fetchVars, upVars, catVars, batchVars, reqVars, linkVars,
                 wallVars>>
notFetchVars == <<selVars, upVars, catVars, batchVars, reqVars, linkVars,
                 wallVars>>
notUpVars    == <<selVars, fetchVars, catVars, batchVars, reqVars, linkVars,
                 wallVars>>
notCatVars   == <<selVars, fetchVars, upVars, batchVars, reqVars, linkVars,
                 wallVars>>
\* auto_scan_tamilmv calls process_single_movie and reads the collection.
notBatchVars == <<selVars, fetchVars, upVars, reqVars, linkVars, wallVars>>
notReqVars   == <<selVars, fetchVars, upVars, catVars, batchVars, linkVars,
                 wallVars>>
notWallVars  == <<selVars, fetchVars, upVars, catVars, batchVars, reqVars,
                 linkVars>>
\* get_torrent_links makes the list select_best_torrent is called with.
notLinkVars  == <<fetchVars, upVars, catVars, batchVars, reqVars, wallVars>>

(***************************************************************************)
(* Text.  A Python str is a sequence of one-character strings, so that      *)
(* `kw in title` is a real substring test.                                  *)
(***************************************************************************)
Contains(kw, s) ==
    \E i \in 1..(Len(s) - Len(kw) + 1) :
        \A k \in 1..Len(kw) : s[i + k - 1] = kw[k]

s_1080p    == <<"1","0","8","0","p">>
s_720p     == <<"7","2","0","p">>
s_HQ       == <<"H","Q">>
s_CAM      == <<"C","A","M">>
s_TC       == <<"T","C">>
s_Telesync == <<"T","e","l","e","s","y","n","c">>
s_480p     == <<"4","8","0","p">>
s_4K       == <<"4","K">>
s_2160p    == <<"2","1","6","0","p">>
s_HDCAM    == <<"H","D","C","A","M">>
s_sp       == <<" ">>
s_WEBDL    == <<"W","E","B","-","D","L">>
s_BluRay   == <<"B","l","u","R","a","y">>
s_WATCH    == <<"W","A","T","C","H">>

(***************************************************************************)
(* SELECTION_RULES.  Sizes are in hundredths of a GB: _extract_size rounds  *)
(* every size to two decimals, so 2.2 GB is 220.                            *)
(***************************************************************************)
SELECTION_RULES ==
    [ optimal        |-> [quality |-> s_1080p, min_size_gb |-> 100,
                          max_size_gb |-> 300,  priority |-> 1],
      fallback_1080p |-> [quality |-> s_1080p, min_size_gb |-> 50,
                          max_size_gb |-> 1500, priority |-> 2],
      fallback_720p  |-> [quality |-> s_720p,  min_size_gb |-> 100,
                          max_size_gb |-> 500,  priority |-> 3,
                          require_keywords |-> {s_HQ}],
      blacklist      |-> {s_CAM, s_TC, s_Telesync, s_480p, s_4K, s_2160p,
                          s_HDCAM} ]

\* Bounds of the selector's inputs.
MaxTorrents == 3

\* The labels the candidates carry, and the characters of each.
Titles ==
    { "WEB-DL 1080p",
      "HDCAM 1080p",      \* blacklisted
      "WATCH 1080p",      \* holds "TC"
      "HQ 720p",
      "BluRay 720p" }     \* no HQ marker

Chars(title) ==
    CASE title = "WEB-DL 1080p" -> s_WEBDL \o s_sp \o s_1080p
      [] title = "HDCAM 1080p"  -> s_HDCAM \o s_sp \o s_1080p
      [] title = "WATCH 1080p"  -> s_WATCH \o s_sp \o s_1080p
      [] title = "HQ 720p"      -> s_HQ \o s_sp \o s_720p
      [] title = "BluRay 720p"  -> s_BluRay \o s_sp \o s_720p

\* `kw in t['title']` for every keyword the rules name and every label,
\* computed once.
Keywords == {s_1080p, s_720p, s_HQ, s_CAM, s_TC, s_Telesync, s_480p, s_4K,
             s_2160p, s_HDCAM}

kw_in == [kw \in Keywords, title \in Titles |-> Contains(kw, Chars(title))]

\* 0 is an unparsable size; 50, 100 and 300 are inclusive bounds of the
\* tiers; 1501 is above every tier.
Sizes == {0, 50, 100, 300, 1501}

Candidate == [title : Titles, size_gb : Sizes]

TorrentLists == UNION { [1..n -> Candidate] : n \in 0..MaxTorrents }

\* A filter that forgets the blacklist.
mut_valid_torrents(ts) == 1..Len(ts)

\* valid_torrents: the indices of the candidates that hold no blacklisted
\* keyword, in list order.
valid_torrents(ts) ==
    { i \in 1..Len(ts) :
        ~ \E kw \in SELECTION_RULES.blacklist : kw_in[kw, ts[i].title] }

optimal_files(ts) ==
    { i \in valid_torrents(ts) :
        /\ kw_in[s_1080p, ts[i].title]
        /\ SELECTION_RULES.optimal.min_size_gb <= ts[i].size_gb
        /\ ts[i].size_gb <= SELECTION_RULES.optimal.max_size_gb }

fallback_files(ts) ==
    { i \in valid_torrents(ts) :
        /\ kw_in[s_1080p, ts[i].title]
        /\ SELECTION_RULES.fallback_1080p.min_size_gb <= ts[i].size_gb
        /\ ts[i].size_gb <= SELECTION_RULES.fallback_1080p.max_size_gb }

\* A last resort that forgets the required "HQ" keyword.
mut_last_resort(ts) ==
    { i \in valid_torrents(ts) :
        /\ kw_in[s_720p, ts[i].title]
        /\ SELECTION_RULES.fallback_720p.min_size_gb <= ts[i].size_gb
        /\ ts[i].size_gb <= SELECTION_RULES.fallback_720p.max_size_gb }

last_resort(ts) ==
    { i \in valid_torrents(ts) :
        /\ kw_in[s_720p, ts[i].title]
        /\ kw_in[s_HQ, ts[i].title]
        /\ SELECTION_RULES.fallback_720p.min_size_gb <= ts[i].size_gb
        /\ ts[i].size_gb <= SELECTION_RULES.fallback_720p.max_size_gb }

\* A min that keeps the last of several least elements.
mut_min_by_size(ts, S) ==
    CHOOSE i \in S :
        \A j \in S : \/ ts[i].size_gb < ts[j].size_gb
                     \/ (ts[i].size_gb = ts[j].size_gb /\ i >= j)

\* Python's min(files, key=size_gb): the first element of least key.
min_by_size(ts, S) ==
    CHOOSE i \in S :
        \A j \in S : \/ ts[i].size_gb < ts[j].size_gb
                     \/ (ts[i].size_gb = ts[j].size_gb /\ i <= j)

\* A selector that tries the wide 1080p tier before the optimal one.
mut_select_best_torrent(ts) ==
    IF ts = <<>> THEN 0
    ELSE IF valid_torrents(ts) = {} THEN 0
    ELSE IF fallback_files(ts) # {} THEN min_by_size(ts, fallback_files(ts))
    ELSE IF optimal_files(ts) # {} THEN min_by_size(ts, optimal_files(ts))
    ELSE IF last_resort(ts) # {} THEN min_by_size(ts, last_resort(ts))
    ELSE 0

select_best_torrent(ts) ==
    IF ts = <<>> THEN 0
    ELSE IF valid_torrents(ts) = {} THEN 0
    ELSE IF optimal_files(ts) # {} THEN min_by_size(ts, optimal_files(ts))
    ELSE IF fallback_files(ts) # {} THEN min_by_size(ts, fallback_files(ts))
    ELSE IF last_resort(ts) # {} THEN min_by_size(ts, last_resort(ts))
    ELSE 0

Select ==
    /\ selPc = "call"
    /\ best_torrent' = select_best_torrent(torrents)
    /\ selPc' = "returned"
    /\ UNCHANGED <<torrents, notSelVars>>

(***************************************************************************)
(* TamilMVScraper._extract_size and the candidate get_torrent_links makes   *)
(* of a magnet link.  The text around a link is a sequence of tokens: a     *)
(* decimal number (in hundredths, so 2.1 is 210), white space, a unit word  *)
(* or some other word.  The numbers have at most two decimals and the       *)
(* numbers of megabytes that matter are whole, so that the float arithmetic *)
(* of _extract_size is exact up to the final round(size, 2).                *)
(***************************************************************************)
MaxTokens == 3

Num(v)   == [k |-> "num", v |-> v, u |-> ""]
Space    == [k |-> "sp", v |-> 0, u |-> ""]
Unit(u)  == [k |-> "unit", v |-> 0, u |-> u]
Word     == [k |-> "word", v |-> 0, u |-> ""]

\* 0, 1.5, 2.1, 128, 700, 1023 and 2100
Numbers   == {0, 150, 210, 12800, 70000, 102300, 210000}
UnitWords == {"GB", "gb", "MB", "mb", "KB", "TB"}
Tokens    == {Num(v) : v \in Numbers} \cup {Space, Word}
             \cup {Unit(u) : u \in UnitWords}
Texts     == UNION { [1..n -> Tokens] : n \in 0..MaxTokens }

\* str.upper() of a unit word
Upper(u) == CASE u = "gb" -> "GB"
              [] u = "mb" -> "MB"
              [] OTHER    -> u

\* \s*(GB|MB) from position j on, re.IGNORECASE: the unit matched, or "".
RECURSIVE unit_at(_, _)
unit_at(text, j) ==
    IF j > Len(text) THEN ""
    ELSE IF text[j].k = "sp" THEN unit_at(text, j + 1)
    ELSE IF text[j].k = "unit" /\ Upper(text[j].u) \in {"GB", "MB"}
         THEN Upper(text[j].u)
    ELSE ""

\* re.search: the leftmost position from i on where the pattern matches, 0
\* when there is none.
RECURSIVE search(_, _)
search(text, i) ==
    IF i > Len(text) THEN 0
    ELSE IF text[i].k = "num" /\ unit_at(text, i + 1) # "" THEN i
    ELSE search(text, i + 1)

\* round(a / b, 0) of Python: to the nearest, a tie to the even neighbour.
RoundHalfEven(a, b) ==
    LET q == a \div b
        r == a % b
    IN IF 2 * r < b THEN q
       ELSE IF 2 * r > b THEN q + 1
       ELSE IF q % 2 = 0 THEN q ELSE q + 1

\* An _extract_size that takes every number for gigabytes.
mut_extract_size(text) ==
    LET i == search(text, 1) IN
    IF i = 0 THEN 0 ELSE text[i].v

\* _extract_size, in hundredths of a GB: size / 1024 for MB, then
\* round(size, 2); 0.0 without a match.
extract_size(text) ==
    LET i == search(text, 1) IN
    IF i = 0 THEN 0
    ELSE IF unit_at(text, i + 1) = "MB"
         THEN RoundHalfEven(text[i].v, 1024)
    ELSE text[i].v

\* get_torrent_links, one magnet link: the candidate with the label of the
\* link and the size read from the text around it; select_best_torrent is
\* then called with the list.
GetTorrentLinks ==
    /\ linkPc = "link"
    /\ \E title \in Titles :
         torrents' = <<[title |-> title,
                        size_gb |-> extract_size(parent_text)]>>
    /\ linkPc' = "read"
    /\ selPc' = "call"
    /\ UNCHANGED <<best_torrent, parent_text>>
    /\ UNCHANGED notLinkVars

(***************************************************************************)
(* SeedrHandler.  A value the remote service reports for an identifier is   *)
(* absent (None), an int, a numeric string or some other string.            *)
(***************************************************************************)
NoneV      == [t |-> "none", v |-> 0]
IntV(n)    == [t |-> "int", v |-> n]
NumStrV(n) == [t |-> "numstr", v |-> n]
BadStrV    == [t |-> "str", v |-> 0]

\* Python truthiness, `a or b`, and whether int(x) returns or raises.
Truthy(x) == IF x.t = "none" THEN FALSE
             ELSE IF x.t = "int" THEN x.v # 0 ELSE TRUE
Or(a, b)  == IF Truthy(a) THEN a ELSE b
CanInt(x) == x.t \in {"int", "numstr"}
ToInt(x)  == IntV(x.v)

\* wait_for_download's defaults, and the polls they allow.
max_wait_minutes == 60
poll_seconds     == 30
attempts         == (max_wait_minutes * 60) \div poll_seconds

\* Bounds of the remote service's answers.
MaxTransfers == 2      \* entries of a transfer list
MaxFiles     == 2      \* files of a folder listing

TransferIds == {NoneV, IntV(0), IntV(1), NumStrV(1), BadStrV}
FolderIds   == {NoneV, IntV(77), NumStrV(77), BadStrV}
FileIds     == {NoneV, IntV(5), BadStrV}
Url         == "https://seedr/file"

\* ---- add_magnet ----
\* The JSON of POST /rest/transfer/magnet: "transfers" and "transfer" are
\* each absent, one transfer object, or a list of transfer objects.
TransferObjs == [id : TransferIds]
TransferFields ==
    {[shape |-> "absent", items |-> <<>>]}
    \cup {[shape |-> "dict", items |-> <<t>>] : t \in TransferObjs}
    \cup {[shape |-> "list", items |-> l] :
            l \in UNION {[1..n -> TransferObjs] : n \in 0..MaxTransfers}}
Absent == [shape |-> "absent", items |-> <<>>]
\* ok = FALSE: _post returned None (HTTP error, timeout, exception).
AddMagnetResponses ==
    {[ok |-> FALSE, transfers |-> Absent, transfer |-> Absent]}
    \cup [ok : {TRUE}, transfers : TransferFields, transfer : TransferFields]

add_magnet(resp) ==
    IF ~resp.ok THEN NoneV
    ELSE LET transfers ==
                 IF resp.transfers.items # <<>> THEN resp.transfers
                 ELSE resp.transfer
         IN IF transfers.shape = "dict" THEN transfers.items[1].id
            ELSE IF transfers.items # <<>>
                 THEN transfers.items[Len(transfers.items)].id
            ELSE NoneV

\* ---- get_transfer_info ----
StatusWords == {"", "downloading", "queued", "Finished", "seeding", "done",
                "complete", "error", "FAILED"}
StateWords  == {"", "finished", "failed"}
Lower(w) == CASE w = "Finished" -> "finished"
              [] w = "FAILED"   -> "failed"
              [] OTHER          -> w

\* ok = FALSE: _get returned None.
Infos == [ok : {TRUE}, status : StatusWords, state : StateWords,
          folder_id : FolderIds, folder : {NoneV, IntV(78)}]
NoInfo == [ok |-> FALSE, status |-> "", state |-> "", folder_id |-> NoneV,
           folder |-> NoneV]
\* The entries of GET /rest/transfer, the fallback listing.
ListedInfos == [id : TransferIds, status : {"downloading", "seeding", "error"},
                state : {""}, folder_id : {NoneV, IntV(77)}, folder : {NoneV}]
NoList == [ok |-> FALSE, items |-> <<>>]
TransferInfoResponses ==
    [direct : Infos, list : {NoList}]
    \cup [direct : {NoInfo},
          list : {NoList} \cup
                 [ok : {TRUE},
                  items : UNION {[1..n -> ListedInfos] : n \in 0..MaxTransfers}]]

\* The first entry of items[k..] whose int(id) equals int(tid); "raise" when
\* an int() on the way fails.
RECURSIVE find_transfer(_, _, _)
find_transfer(items, k, tid) ==
    IF k > Len(items) THEN [raise |-> FALSE, info |-> NoInfo]
    ELSE LET id == IF items[k].id.t = "none" THEN IntV(-1) ELSE items[k].id
         IN IF ~CanInt(id) \/ ~CanInt(tid)
            THEN [raise |-> TRUE, info |-> NoInfo]
            ELSE IF ToInt(id) = ToInt(tid)
                 THEN [raise |-> FALSE,
                       info |-> [ok |-> TRUE, status |-> items[k].status,
                                 state |-> items[k].state,
                                 folder_id |-> items[k].folder_id,
                                 folder |-> items[k].folder]]
            ELSE find_transfer(items, k + 1, tid)

get_transfer_info(tid, r) ==
    IF r.direct.ok THEN [raise |-> FALSE, info |-> r.direct]
    ELSE IF ~r.list.ok THEN [raise |-> FALSE, info |-> NoInfo]
    ELSE find_transfer(r.list.items, 1, tid)

SuccessWords == {"finished", "seeding", "done", "complete"}
FailureWords == {"error", "failed"}

\* The status wait_for_download reads from an info, lower-cased.
status_of(info) ==
    Lower(IF info.status # "" THEN info.status ELSE info.state)

\* What a poll read: nothing yet, no info (the status fetch failed), an
\* exception of the status fetch, or a status and, with a success status,
\* the folder handle wait_for_download goes on to return.
NotPolled   == [kind |-> "none", status |-> "", handle |-> NoneV]
FetchFailed == [kind |-> "no_info", status |-> "", handle |-> NoneV]
FetchRaised == [kind |-> "raised", status |-> "", handle |-> NoneV]
Read(st, h) == [kind |-> "info", status |-> st, handle |-> h]

\* ---- get_largest_file ----
Files == [id : FileIds, file_id : {NoneV, IntV(6)}, size : {0, 10, 20}]
FolderResponses ==
    {[ok |-> FALSE, files |-> <<>>]}
    \cup [ok : {TRUE}, files : UNION {[1..n -> Files] : n \in 0..MaxFiles}]

\* max(files, key=size): the first file of greatest size.
largest(files) ==
    CHOOSE k \in 1..Len(files) :
        \A j \in 1..Len(files) :
            \/ files[k].size > files[j].size
            \/ (files[k].size = files[j].size /\ k <= j)

\* ---- get_direct_link ----
LinkResponses ==
    {[ok |-> FALSE, download_url |-> "", url |-> ""]}
    \cup [ok : {TRUE}, download_url : {"", Url}, url : {"", Url}]
get_direct_link(resp) ==
    IF ~resp.ok THEN "None"
    ELSE IF resp.download_url # "" THEN resp.download_url
    ELSE IF resp.url # "" THEN resp.url
    ELSE "None"

\* ---- process_one_movie, step by step ----
\* The exception leaves process_one_movie: nothing after it runs.
Raise ==
    /\ fpc' = "done"
    /\ raised' = TRUE
    /\ direct_link' = "raised"

\* delete_transfer_data(transfer_id, folder_id) is entered.
EnterTeardown ==
    /\ teardowns' = teardowns + 1
    /\ fpc' = IF Truthy(folder_id) THEN "delete_folder" ELSE "delete_transfer"

\* 1) transfer_id = await self.add_magnet(magnet_link)
AddMagnet ==
    /\ fpc = "add_magnet"
    /\ \E resp \in AddMagnetResponses :
         LET tid == add_magnet(resp) IN
         /\ transfer_id' = tid
         /\ IF ~Truthy(tid)
            THEN /\ fpc' = "done" /\ direct_link' = "None"
                 /\ job_state' = "submit_failed"
            ELSE /\ fpc' = "poll" /\ direct_link' = direct_link
                 /\ job_state' = "polling"
    /\ UNCHANGED <<poll_i, folder_id, listed, file_id, raised, teardowns,
                   calls>>
    /\ UNCHANGED polled
    /\ UNCHANGED notFetchVars

\* 2) one iteration of wait_for_download's loop
Poll ==
    /\ fpc = "poll"
    /\ poll_i < attempts
    /\ \E r \in TransferInfoResponses :
         LET got == get_transfer_info(transfer_id, r) IN
         IF got.raise
         THEN /\ Raise
              /\ polled' = FetchRaised
              /\ UNCHANGED <<poll_i, folder_id, job_state>>
         ELSE IF ~got.info.ok
         THEN /\ poll_i' = poll_i + 1
              /\ polled' = FetchFailed
              /\ UNCHANGED <<fpc, folder_id, job_state, raised, direct_link>>
         ELSE LET status == status_of(got.info)
                  fid    == Or(got.info.folder_id, got.info.folder)
              IN /\ polled' = Read(status, IF status \in SuccessWords
                                            THEN fid ELSE NoneV)
                 /\ IF status \in SuccessWords
                    THEN IF Truthy(fid) /\ ~CanInt(fid)
                         THEN /\ Raise
                              /\ UNCHANGED <<poll_i, folder_id, job_state>>
                         ELSE /\ folder_id' = IF Truthy(fid) THEN ToInt(fid)
                                              ELSE NoneV
                              /\ job_state' = "completed"
                              /\ fpc' = "largest"
                              /\ poll_i' = 0
                              /\ UNCHANGED <<raised, direct_link>>
                    ELSE IF status \in FailureWords
                    THEN /\ job_state' = "failed"
                         /\ fpc' = "done"
                         /\ direct_link' = "None"
                         /\ UNCHANGED <<poll_i, folder_id, raised>>
                    ELSE /\ poll_i' = poll_i + 1
                         /\ UNCHANGED <<fpc, folder_id, job_state, raised,
                                        direct_link>>
    /\ UNCHANGED <<transfer_id, listed, file_id, teardowns, calls>>
    /\ UNCHANGED notFetchVars

\* the loop ran out: wait_for_download returns (False, None)
PollTimeout ==
    /\ fpc = "poll"
    /\ poll_i >= attempts
    /\ job_state' = "timed_out"
    /\ fpc' = "done"
    /\ direct_link' = "None"
    /\ UNCHANGED <<transfer_id, poll_i, folder_id, listed, file_id, raised,
                   teardowns, calls>>
    /\ UNCHANGED polled
    /\ UNCHANGED notFetchVars

\* 3) movie_file = await self.get_largest_file(folder_id), and the file id
GetLargestFile ==
    /\ fpc = "largest"
    /\ calls' = Append(calls, <<"list_folder", folder_id>>)
    /\ \E resp \in FolderResponses :
         /\ listed' = resp.files
         /\ IF ~resp.ok \/ resp.files = <<>>
            THEN /\ direct_link' = "None"
                 /\ EnterTeardown
                 /\ UNCHANGED <<file_id, raised>>
            ELSE LET movie_file == resp.files[largest(resp.files)]
                     fid        == Or(movie_file.id, movie_file.file_id)
                 IN IF ~Truthy(fid)
                    THEN /\ direct_link' = "None"
                         /\ EnterTeardown
                         /\ UNCHANGED <<file_id, raised>>
                    ELSE IF ~CanInt(fid)
                    THEN /\ Raise
                         /\ UNCHANGED <<file_id, teardowns>>
                    ELSE /\ file_id' = ToInt(fid)
                         /\ fpc' = "link"
                         /\ UNCHANGED <<direct_link, raised, teardowns>>
    /\ UNCHANGED <<transfer_id, poll_i, folder_id, job_state>>
    /\ UNCHANGED polled
    /\ UNCHANGED notFetchVars

\* 4) direct_link = await self.get_direct_link(int(file_id)); 5) teardown
GetDirectLink ==
    /\ fpc = "link"
    /\ calls' = Append(calls, <<"get_direct_link", file_id>>)
    /\ \E resp \in LinkResponses : direct_link' = get_direct_link(resp)
    /\ EnterTeardown
    /\ UNCHANGED <<transfer_id, poll_i, folder_id, listed, file_id, raised,
                   job_state>>
    /\ UNCHANGED polled
    /\ UNCHANGED notFetchVars

\* delete_transfer_data: if folder_id: await self.delete_folder(folder_id)
DeleteFolder ==
    /\ fpc = "delete_folder"
    /\ calls' = Append(calls, <<"delete_folder", folder_id>>)
    /\ fpc' = "delete_transfer"
    /\ UNCHANGED <<transfer_id, poll_i, folder_id, listed, file_id,
                   direct_link, raised, job_state, teardowns>>
    /\ UNCHANGED polled
    /\ UNCHANGED notFetchVars

\* delete_transfer_data: await self.delete_transfer(transfer_id); return
DeleteTransfer ==
    /\ fpc = "delete_transfer"
    /\ calls' = Append(calls, <<"delete_transfer", transfer_id>>)
    /\ fpc' = "done"
    /\ UNCHANGED <<transfer_id, poll_i, folder_id, listed, file_id,
                   direct_link, raised, job_state, teardowns>>
    /\ UNCHANGED polled
    /\ UNCHANGED notFetchVars

(***************************************************************************)
(* PPDUploader.  A str that is None, missing or empty is "" in a response;  *)
(* the locals of remote_upload hold "None" for None.                        *)
(***************************************************************************)
\* The first non-empty of the alternatives of a Python `a or b or ...`.
RECURSIVE FirstOf(_)
FirstOf(alts) ==
    IF alts = <<>> THEN ""
    ELSE IF Head(alts) # "" THEN Head(alts)
    ELSE FirstOf(Tail(alts))

\* What an adapter returns: None, or a dict with a URL and a file id.
Nothing == [raise |-> FALSE, some |-> FALSE, url |-> "", file_id |-> ""]
Raising == [raise |-> TRUE, some |-> FALSE, url |-> "", file_id |-> ""]
Dict(u, f) ==
    [raise |-> FALSE, some |-> TRUE, url |-> u, file_id |-> f]
NotCalled == [called |-> FALSE, some |-> FALSE, url |-> ""]
Called(r) == [called |-> TRUE, some |-> r.some, url |-> r.url]

\* The answer of a host to the POST: the request raised (timeout, refused
\* connection, body that is no JSON object), a status other than 200, or a
\* JSON object with some of the fields the adapters read.
HostResponses(ids, urls) ==
    {[kind |-> k, empty |-> FALSE, error |-> "", success |-> FALSE,
      file_id |-> "", id |-> "", code |-> "", named_url |-> "",
      stream_url |-> "", url |-> ""] : k \in {"exception", "http_error"}}
    \cup [kind : {"json"}, empty : BOOLEAN, error : {"", "denied"},
          success : BOOLEAN,
          file_id : {"", ids[1]}, id : {"", ids[2]}, code : {""},
          named_url : {"", urls[1]}, stream_url : {""},
          url : {"", urls[2]}]

LuluResponses ==
    HostResponses(<<"L1", "L2">>, <<"https://lulu/e/1", "https://lulu/u/1">>)
    \cup {[kind |-> "json", empty |-> FALSE, error |-> "", success |-> FALSE,
           file_id |-> "", id |-> "", code |-> "L3", named_url |-> "",
           stream_url |-> s, url |-> ""] : s \in {"", "https://lulu/s/1"}}
DgResponses ==
    HostResponses(<<"D1", "D2">>, <<"https://x/y", "https://dg/u/1">>)
GenericResponses ==
    HostResponses(<<"G1", "G2">>, <<"https://ppd/d/1", "https://ppd/u/1">>)

\* f"{base}/watch/{file_id}" and f"{base}/download/{file_id}".
PathOf(base, f) ==
    IF f = "" THEN "" ELSE base \o "/" \o f

\* An adapter that lets the request's exception through.
mut_upload_to_lulu(r) ==
    IF r.kind = "exception" THEN Raising
    ELSE IF r.kind = "http_error" THEN Nothing
    ELSE IF r.empty \/ r.error # "" THEN Nothing
    ELSE LET fid       == FirstOf(<<r.file_id, r.id, r.code>>)
             watch_u   == FirstOf(<<r.named_url, r.stream_url, r.url,
                                    PathOf("lulu/watch", fid)>>)
         IN IF watch_u # "" THEN Dict(watch_u, fid) ELSE Nothing

\* _upload_to_lulu: named_url is the field "watch_url".
upload_to_lulu(r) ==
    IF r.kind = "exception" THEN Nothing
    ELSE IF r.kind = "http_error" THEN Nothing
    ELSE IF r.empty \/ r.error # "" THEN Nothing
    ELSE LET fid       == FirstOf(<<r.file_id, r.id, r.code>>)
             watch_u   == FirstOf(<<r.named_url, r.stream_url, r.url,
                                    PathOf("lulu/watch", fid)>>)
         IN IF watch_u # "" THEN Dict(watch_u, fid) ELSE Nothing

\* _upload_to_dg: named_url is the field "download_url".
upload_to_dg(r) ==
    IF r.kind = "exception" THEN Nothing
    ELSE IF r.kind = "http_error" THEN Nothing
    ELSE IF r.empty \/ r.error # "" THEN Nothing
    ELSE LET fid       == FirstOf(<<r.file_id, r.id, r.code>>)
             down_u    == FirstOf(<<r.named_url, r.url,
                                    PathOf("dg/download", fid)>>)
         IN IF down_u # "" THEN Dict(down_u, fid) ELSE Nothing

\* _upload_generic_ppd: data.get on an empty body raises and is caught;
\* the URL is built from file_id even when the field is missing.
upload_generic_ppd(r) ==
    IF r.kind = "exception" THEN Nothing
    ELSE IF r.kind = "http_error" THEN Nothing
    ELSE IF r.empty THEN Nothing
    ELSE IF r.success
         THEN Dict("ppd/download/" \o (IF r.file_id = "" THEN "None"
                                       ELSE r.file_id), r.file_id)
    ELSE Nothing

\* None for a missing value of a returned dict.
NoneIfEmpty(x) == IF x = "" THEN "None" ELSE x

\* A return that wants both URLs.
mut_remote_upload_result(w, d) ==
    IF w # "None" /\ d # "None" THEN "dict" ELSE "None"

\* if watch_url or download_url: return {...}; else return None
remote_upload_result(w, d) ==
    IF w # "None" \/ d # "None" THEN "dict" ELSE "None"

\* A fallback that is tried whenever it is configured.
mut_use_generic(d, h) == h.generic_base /\ h.generic_key

\* if not download_url and self.generic_base and self.generic_key
use_generic(d, h) == d = "None" /\ h.generic_base /\ h.generic_key

UpRaise ==
    /\ upc' = "returned"
    /\ up_raised' = TRUE
    /\ ppd_result' = "raised"

\* 1) LuluStream (Watch)
UploadLulu ==
    /\ upc = "lulu"
    /\ IF hosts.lulu_base /\ hosts.lulu_key
       THEN \E r \in LuluResponses :
              LET w == upload_to_lulu(r) IN
              /\ watch' = Called(w)
              /\ IF w.raise
                 THEN /\ UpRaise
                      /\ UNCHANGED <<watch_url, lulu_id>>
                 ELSE /\ watch_url' = IF w.some THEN w.url ELSE watch_url
                      /\ lulu_id' = IF w.some THEN NoneIfEmpty(w.file_id)
                                    ELSE lulu_id
                      /\ upc' = "dg"
                      /\ UNCHANGED <<up_raised, ppd_result>>
       ELSE /\ upc' = "dg"
            /\ UNCHANGED <<watch, watch_url, lulu_id, up_raised, ppd_result>>
    /\ UNCHANGED <<hosts, download_url, dg_id, down, gen>>
    /\ UNCHANGED notUpVars

\* 2) DropGalaxy (Download)
UploadDg ==
    /\ upc = "dg"
    /\ IF hosts.dg_base
       THEN \E r \in DgResponses :
              LET d == upload_to_dg(r) IN
              /\ down' = Called(d)
              /\ download_url' = IF d.some THEN d.url ELSE download_url
              /\ dg_id' = IF d.some THEN NoneIfEmpty(d.file_id) ELSE dg_id
       ELSE UNCHANGED <<down, download_url, dg_id>>
    /\ upc' = "generic"
    /\ UNCHANGED <<hosts, watch_url, lulu_id, watch, gen, up_raised,
                   ppd_result>>
    /\ UNCHANGED notUpVars

\* 3) Generic fallback, and the return
UploadGeneric ==
    /\ upc = "generic"
    /\ IF use_generic(download_url, hosts)
       THEN \E r \in GenericResponses :
              LET g == upload_generic_ppd(r) IN
              /\ gen' = Called(g)
              /\ download_url' = IF g.some THEN g.url ELSE download_url
       ELSE UNCHANGED <<gen, download_url>>
    /\ ppd_result' = remote_upload_result(watch_url, download_url')
    /\ upc' = "returned"
    /\ UNCHANGED <<hosts, watch_url, lulu_id, dg_id, watch, down, up_raised>>
    /\ UNCHANGED notUpVars

(***************************************************************************)
(* MovieProcessor.process_single_movie and the movies collection.  A field  *)
(* a document does not have is "missing"; None is "None".                   *)
(***************************************************************************)
MaxRuns == 3

movie_title == "Leo"
Years       == {"None", "2024"}

\* What PosterFetcher.search_movie returns: None, or a dict whose poster_url
\* and overview may be None.
NoPosterData == [some |-> FALSE, poster_url |-> FALSE, overview |-> "None"]
PosterData ==
    {NoPosterData}
    \cup [some : {TRUE}, poster_url : BOOLEAN, overview : {"None", "text"}]

\* What PPDUploader.remote_upload returns: None, or a dict with a URL.
NoPpd == [some |-> FALSE, watch_url |-> "None", download_url |-> "None"]
PpdResults ==
    {NoPpd}
    \cup { r \in [some : {TRUE}, watch_url : {"None", "https://lulu/e/1"},
                  download_url : {"None", "https://x/y"}] :
             r.watch_url # "None" \/ r.download_url # "None" }

\* The document upload_poster inserts: a title and the poster references, no
\* year field.
PosterDoc(id, title, url) ==
    [id |-> id, title |-> title, year |-> "missing", watch_url |-> "missing",
     download_url |-> "missing", poster_path |-> "missing",
     poster_primary |-> url, auto_added |-> FALSE]

\* movie_doc of _save_to_database.
movie_doc(title, y, w, d, p) ==
    [id |-> 0, title |-> title, year |-> y, watch_url |-> w,
     download_url |-> d, poster_path |-> p, poster_primary |-> "missing",
     auto_added |-> TRUE]

\* The filter {"title": title, "year": year}: a filter on None matches a
\* document whose field is null and a document without the field.
Matches(doc, title, y) ==
    /\ doc.title = title
    /\ IF y = "None" THEN doc.year \in {"None", "missing"} ELSE doc.year = y

\* find_one: the first matching document in insertion order, 0 for None.
find_one(coll, title, y) ==
    LET S == { k \in 1..Len(coll) : Matches(coll[k], title, y) }
    IN IF S = {} THEN 0 ELSE CHOOSE k \in S : \A j \in S : k <= j

\* update_one(filter, {"$set": doc}, upsert=True): the fields of doc are set
\* on the first match, the other fields of the match are kept; without a
\* match a document is inserted.
update_one(coll, title, y, doc) ==
    LET k == find_one(coll, title, y)
    IN IF k = 0
       THEN [coll |-> Append(coll, [doc EXCEPT !.id = Len(coll) + 1]),
             upserted_id |-> Len(coll) + 1]
       ELSE [coll |-> [coll EXCEPT ![k] =
                          [doc EXCEPT !.id = coll[k].id,
                                      !.poster_primary = coll[k].poster_primary]],
             upserted_id |-> 0]

\* get_db(): the handle of the database, None while it is not connected.
get_db(connected) == IF connected THEN "db" ELSE "None"

\* POST /api/poster/upload.  tg is what the Telegram step did, imgbb whether
\* ImgBB answered with a URL, insert_ok whether insert_one went through.
TelegramOutcomes == {"skipped", "failed", "file_id", "file_id_and_url"}

upload_poster(coll, title, tg, imgbb, insert_ok) ==
    LET telegram_file_id == tg \in {"file_id", "file_id_and_url"}
        telegram_url == IF tg = "file_id_and_url"
                        THEN "https://api.telegram.org/file/p" ELSE "None"
        imgbb_url    == IF imgbb THEN "https://i.ibb.co/p" ELSE "None"
        primary_url  == IF imgbb_url # "None" THEN imgbb_url ELSE telegram_url
        failure      == [success |-> FALSE, url |-> "None", coll |-> coll]
    IN IF ~telegram_file_id /\ imgbb_url = "None" THEN failure
       ELSE IF primary_url = "None" THEN failure
       ELSE IF ~insert_ok THEN failure
       ELSE [success |-> TRUE, url |-> primary_url,
             coll |-> Append(coll, PosterDoc(Len(coll) + 1, title,
                                             primary_url))]

\* AUTO_NOTIFY_ADMIN of automation/config.py.
AUTO_NOTIFY_ADMIN == TRUE

\* A save that takes the database for reachable and the write for done.
mut_save_to_database(coll, t, y, ppd, path, outcome) ==
    LET r == update_one(coll, t, y,
                        movie_doc(t, y, ppd.watch_url, ppd.download_url,
                                  path))
    IN [coll |-> r.coll,
        movie_id |-> IF r.upserted_id # 0 THEN r.upserted_id
                     ELSE find_one(r.coll, t, y)]

\* _save_to_database: None without a database handle or when the write or
\* the find_one after it raises, else the id of the upserted or found
\* document.  outcome is how the database behaves.
DbOutcomes == {"unreachable", "write_error", "find_error", "ok"}

save_to_database(coll, t, y, ppd, path, outcome) ==
    IF get_db(outcome # "unreachable") = "None" \/ outcome = "write_error"
    THEN [coll |-> coll, movie_id |-> 0]
    ELSE LET r == update_one(coll, t, y,
                             movie_doc(t, y, ppd.watch_url, ppd.download_url,
                                       path))
         IN [coll |-> r.coll,
             movie_id |-> IF r.upserted_id # 0 THEN r.upserted_id
                          ELSE IF outcome = "find_error" THEN 0
                          ELSE find_one(r.coll, t, y)]

\* A pipeline that goes on without a direct link.
mut_next_after_gather(link) == "ppd"

\* if not direct_link: return result; an exception of the gathered download
\* goes to the except branch, which returns result as well.
next_after_gather(link) ==
    IF link \in {"None", "raise"} THEN "done" ELSE "ppd"

\* result["errors"] after the gather: the entry of the early return, or of
\* the except branch when the download raised.
errors_after_gather(errs, link) ==
    IF link = "raise" THEN Append(errs, "Unexpected error: ...")
    ELSE IF link = "None"
         THEN Append(errs, "Seedr download failed or timeout")
    ELSE errs

\* A pipeline that goes on without an upload result.
mut_next_after_upload(r) == "poster"

\* if not ppd_result: return result
next_after_upload(r) ==
    IF r.some THEN "poster" ELSE "done"

\* A pipeline that gives up an item without a poster.
mut_next_after_poster(path) == IF path = "None" THEN "done" ELSE "save"

\* Step 5 follows step 4 whatever poster_path is.
next_after_poster(path) == "save"

\* What _notify_admin_success and the except branch around it leave of
\* result: success, movie_id and status are not assigned after step 5.
NotifyOutcomes == {"no_admin_id", "sent", "http_error", "exception"}

\* A notification whose failure fails the item.
mut_result_after_notify(res, outcome) ==
    IF outcome \in {"http_error", "exception"}
    THEN [res EXCEPT !.success = FALSE, !.status = "Notification failed"]
    ELSE res

result_after_notify(res, outcome) == res

\* The entry of process_single_movie up to asyncio.gather: the result dict is
\* created and both coroutines are started.
CallProcess(t, y) ==
    /\ search_task # "running"
    /\ m_title' = t
    /\ year' = y
    /\ mpc' = "gather"
    /\ success' = FALSE
    /\ movie_id' = 0
    /\ m_status' = "Leeching with Seedr"
    /\ fetch_task' = "running"
    /\ search_task' = "running"
    /\ m_direct_link' = "None"
    /\ poster_data' = NoPosterData
    /\ m_ppd_result' = NoPpd
    /\ poster_path' = "None"
    /\ steps' = <<>>
    /\ db_outcome' = "none"
    /\ errors' = <<>>

\* process_movie_background: one quick-add call after the other.
QuickAdd ==
    /\ mpc \in {"idle", "done"}
    /\ runs < MaxRuns
    /\ runs' = runs + 1
    /\ CallProcess(m_title, year)
    /\ UNCHANGED movies
    /\ UNCHANGED notCatVars

\* Step 1: process_one_movie returns a link or None, or raises.
FetchReturns ==
    /\ mpc = "gather"
    /\ fetch_task = "running"
    /\ \E link \in {"https://seedr/file", "None", "raise"} :
         /\ m_direct_link' = link
         /\ fetch_task' = IF link = "raise" THEN "raised" ELSE "done"
    /\ steps' = Append(steps, "fetch")
    /\ UNCHANGED <<mpc, movies, runs, year, poster_data, m_ppd_result,
                   poster_path, movie_id, success, m_title, m_status,
                   search_task, db_outcome>>
    /\ UNCHANGED errors
    /\ UNCHANGED notCatVars

\* Step 2: search_movie returns.  After an exception of the download the
\* gather is over and the search ends on its own, its result unused.
SearchReturns ==
    /\ search_task = "running"
    /\ search_task' = "done"
    /\ IF mpc = "gather"
       THEN /\ \E pd \in PosterData : poster_data' = pd
            /\ steps' = Append(steps, "search")
       ELSE UNCHANGED <<poster_data, steps>>
    /\ UNCHANGED <<mpc, movies, runs, year, m_direct_link, m_ppd_result,
                   poster_path, movie_id, success, m_title, m_status,
                   fetch_task, db_outcome>>
    /\ UNCHANGED errors
    /\ UNCHANGED notCatVars

\* await asyncio.gather(...) resumes: both are done, or the download raised.
Join ==
    /\ mpc = "gather"
    /\ \/ fetch_task = "raised"
       \/ fetch_task = "done" /\ search_task = "done"
    /\ mpc' = next_after_gather(m_direct_link)
    /\ m_status' = IF mpc' = "ppd" THEN "Uploading to PPD site" ELSE m_status
    /\ errors' = errors_after_gather(errors, m_direct_link)
    /\ UNCHANGED <<movies, runs, year, m_direct_link, poster_data,
                   m_ppd_result, poster_path, movie_id, success, m_title,
                   fetch_task, search_task, steps, db_outcome>>
    /\ UNCHANGED notCatVars

\* Step 3: remote upload
RemoteUpload ==
    /\ mpc = "ppd"
    /\ \E r \in PpdResults :
         /\ m_ppd_result' = r
         /\ mpc' = next_after_upload(r)
         /\ errors' = IF r.some THEN errors
                      ELSE Append(errors, "PPD upload failed")
    /\ steps' = Append(steps, "ppd")
    /\ UNCHANGED <<movies, runs, year, m_direct_link, poster_data,
                   poster_path, movie_id, success, m_title, m_status,
                   fetch_task, search_task, db_outcome>>
    /\ UNCHANGED notCatVars

\* Step 4: download_poster, then _upload_poster_to_telegram, which posts to
\* /api/poster/upload; description[:200] raises on None before the request
\* is sent, and a lost answer leaves the inserted document behind.
PosterUpload ==
    /\ mpc = "poster"
    /\ IF poster_data.some /\ poster_data.poster_url
       THEN \E poster_bytes \in BOOLEAN :
              IF poster_bytes /\ poster_data.overview # "None"
              THEN \E tg \in TelegramOutcomes, imgbb \in BOOLEAN,
                      insert_ok \in BOOLEAN, answered \in BOOLEAN :
                     LET r == upload_poster(movies, m_title, tg, imgbb,
                                            insert_ok)
                     IN /\ movies' = r.coll
                        /\ poster_path' = IF answered /\ r.success
                                          THEN r.url ELSE "None"
                        /\ steps' = steps \o <<"poster_download">>
                                    \o (IF r.success
                                        THEN <<"poster_insert">>
                                        ELSE <<"poster_upload_failed">>)
              ELSE /\ poster_path' = "None"
                   /\ steps' = Append(steps, "poster_download")
                   /\ UNCHANGED movies
       ELSE /\ poster_path' = "None"
            /\ UNCHANGED <<movies, steps>>
    /\ mpc' = next_after_poster(poster_path')
    /\ m_status' = IF mpc' = "save" THEN "Saving to database" ELSE m_status
    /\ UNCHANGED <<runs, year, m_direct_link, poster_data, m_ppd_result,
                   movie_id, success, m_title, fetch_task, search_task,
                   db_outcome>>
    /\ UNCHANGED errors
    /\ UNCHANGED notCatVars

\* Step 5: _save_to_database and the result.
SaveToDatabase ==
    /\ mpc = "save"
    /\ \E outcome \in DbOutcomes :
         LET r == save_to_database(movies, m_title, year, m_ppd_result,
                                   poster_path, outcome)
         IN /\ movies' = r.coll
            /\ movie_id' = r.movie_id
            /\ db_outcome' = IF outcome = "find_error" /\ r.movie_id # 0
                             THEN "ok" ELSE outcome
    /\ success' = (movie_id' # 0)
    /\ m_status' = IF movie_id' # 0 THEN "Complete!" ELSE m_status
    /\ mpc' = IF movie_id' # 0 /\ AUTO_NOTIFY_ADMIN THEN "notify" ELSE "done"
    /\ steps' = Append(steps, "save")
    /\ UNCHANGED <<runs, year, m_direct_link, poster_data, m_ppd_result,
                   poster_path, m_title, fetch_task, search_task>>
    /\ UNCHANGED errors
    /\ UNCHANGED notCatVars

\* await self._notify_admin_success(movie_title, movie_id); return result
NotifyAdmin ==
    /\ mpc = "notify"
    /\ \E outcome \in NotifyOutcomes :
         LET res == result_after_notify(
                        [success |-> success, movie_id |-> movie_id,
                         status |-> m_status], outcome)
         IN /\ success' = res.success
            /\ movie_id' = res.movie_id
            /\ m_status' = res.status
            /\ steps' = Append(steps, "notify:" \o outcome)
    /\ mpc' = "done"
    /\ UNCHANGED <<movies, runs, year, m_direct_link, poster_data,
                   m_ppd_result, poster_path, m_title, fetch_task,
                   search_task, db_outcome>>
    /\ UNCHANGED errors
    /\ UNCHANGED notCatVars

(***************************************************************************)
(* MovieProcessor.auto_scan_tamilmv: one batch over the scraped list.       *)
(***************************************************************************)
MaxItems == 2

\* What _parse_topic makes of a topic: a title and a year or None.
BatchItems == {[title |-> "Leo", year |-> "2024"],
               [title |-> "Amaran", year |-> "None"]}

\* What get_latest_movies returns; [] when the scrape raised.
ScrapedLists == UNION { [1..n -> BatchItems] : n \in 0..MaxItems }

\* What get_torrent_links returns; [] when the request raised.
BatchTorrents ==
    {<<>>,
     <<[title |-> "WEB-DL 1080p", size_gb |-> 100]>>,
     <<[title |-> "HDCAM 1080p", size_gb |-> 100]>>,
     <<[title |-> "BluRay 720p", size_gb |-> 300],
       [title |-> "WEB-DL 1080p", size_gb |-> 300]>>}

NoSummary == [scanned |-> 0, added |-> 0, skipped |-> 0, failed |-> 0]

\* A document _save_to_database wrote in an earlier batch.
StoredDoc ==
    [movie_doc("Leo", "2024", "https://lulu/e/1", "https://x/y", "None")
        EXCEPT !.id = 1]

\* `continue`, or the end of the loop body: the next item, or the return.
NextItem ==
    /\ b_idx' = b_idx + 1
    /\ bpc' = IF b_idx < Len(b_movies) THEN "check" ELSE "returned"

\* The frame of a call of process_single_movie that has returned.
ReleaseCall ==
    /\ mpc' = "idle" /\ year' = "None" /\ m_title' = movie_title
    /\ m_direct_link' = "None" /\ poster_data' = NoPosterData
    /\ m_ppd_result' = NoPpd /\ poster_path' = "None" /\ movie_id' = 0
    /\ success' = FALSE /\ m_status' = "Starting..."
    /\ fetch_task' = "none" /\ steps' = <<>> /\ db_outcome' = "none"
    /\ errors' = <<>>

\* A loop that starts the call and does not wait for it.
mut_next_after_submit == "sleep"

\* result = await self.process_single_movie(...)
next_after_submit == "wait"

\* A loop without the read before the write.
mut_existence_check(coll, item, connected, find_ok) ==
    IF get_db(connected) = "None" \/ ~find_ok THEN "raise"
    ELSE "missing"

\* existing = await db["movies"].find_one({...}); db is None without a
\* connection and find_one may raise.
existence_check(coll, item, connected, find_ok) ==
    IF get_db(connected) = "None" \/ ~find_ok THEN "raise"
    ELSE IF find_one(coll, item.title, item.year) # 0 THEN "existing"
    ELSE "missing"

\* get_latest_movies, the scanned count and get_db()
Scan ==
    /\ bpc = "scan"
    /\ \E ms \in ScrapedLists, connected \in BOOLEAN :
         /\ b_movies' = ms
         /\ summary' = [summary EXCEPT !.scanned = Len(ms)]
         /\ b_connected' = connected
         /\ bpc' = IF ms = <<>> THEN "returned" ELSE "check"
    /\ b_idx' = 1
    /\ UNCHANGED <<b_aborted, b_log>>
    /\ UNCHANGED catVars
    /\ UNCHANGED notBatchVars

\* The existence check of the item.  An exception goes to the outer except
\* branch, which returns the summary as it is.
ExistenceCheck ==
    /\ bpc = "check"
    /\ \E find_ok \in BOOLEAN :
         LET existing == existence_check(movies, b_movies[b_idx],
                                         b_connected, find_ok)
         IN CASE existing = "raise" ->
                   /\ bpc' = "returned"
                   /\ b_aborted' = TRUE
                   /\ b_log' = b_log \o <<<<"check", b_idx>>,
                                          <<"raise", b_idx>>>>
                   /\ UNCHANGED <<b_idx, summary>>
              [] existing = "existing" ->
                   /\ summary' = [summary EXCEPT !.skipped = @ + 1]
                   /\ NextItem
                   /\ b_log' = b_log \o <<<<"check", b_idx>>,
                                          <<"exists", b_idx>>>>
                   /\ UNCHANGED b_aborted
              [] existing = "missing" ->
                   /\ bpc' = "list"
                   /\ b_log' = Append(b_log, <<"check", b_idx>>)
                   /\ UNCHANGED <<b_idx, summary, b_aborted>>
    /\ UNCHANGED <<b_movies, b_connected>>
    /\ UNCHANGED catVars
    /\ UNCHANGED notBatchVars

\* get_torrent_links, select_best_torrent and the call of
\* process_single_movie with the magnet of the selected candidate.
ListAndSelect ==
    /\ bpc = "list"
    /\ \E ts \in BatchTorrents :
         IF ts = <<>>
         THEN /\ summary' = [summary EXCEPT !.failed = @ + 1]
              /\ NextItem
              /\ b_log' = b_log \o <<<<"list", b_idx>>,
                                     <<"no_torrents", b_idx>>>>
              /\ UNCHANGED catVars
         ELSE IF select_best_torrent(ts) = 0
         THEN /\ summary' = [summary EXCEPT !.skipped = @ + 1]
              /\ NextItem
              /\ b_log' = b_log \o <<<<"list", b_idx>>,
                                     <<"no_candidate", b_idx>>>>
              /\ UNCHANGED catVars
         ELSE /\ CallProcess(b_movies[b_idx].title, b_movies[b_idx].year)
              /\ bpc' = next_after_submit
              /\ b_log' = b_log \o <<<<"list", b_idx>>,
                                     <<"submit", b_idx>>>>
              /\ UNCHANGED <<movies, runs, b_idx, summary>>
    /\ UNCHANGED <<b_movies, b_connected, b_aborted>>
    /\ UNCHANGED notBatchVars

\* process_single_movie has returned: the item is added or failed.
Collect ==
    /\ bpc = "wait"
    /\ mpc = "done"
    /\ summary' = IF success THEN [summary EXCEPT !.added = @ + 1]
                  ELSE [summary EXCEPT !.failed = @ + 1]
    /\ b_log' = Append(b_log, <<IF success THEN "added" ELSE "failed",
                                b_idx>>)
    /\ bpc' = "sleep"
    /\ ReleaseCall
    /\ UNCHANGED <<movies, runs, search_task>>
    /\ UNCHANGED <<b_movies, b_idx, b_connected, b_aborted>>
    /\ UNCHANGED notBatchVars

\* await asyncio.sleep(5), then the next item
Pause ==
    /\ bpc = "sleep"
    /\ NextItem
    /\ UNCHANGED <<b_movies, summary, b_connected, b_aborted, b_log>>
    /\ UNCHANGED catVars
    /\ UNCHANGED notBatchVars

(***************************************************************************)
(* Background tasks of the admin routes (routes/admin_automation.py).       *)
(* Every accepted request adds one task to the event loop. A task makes its *)
(* own MovieProcessor, hence its own SeedrHandler, and every handler logs   *)
(* in to the one account of SEEDR_EMAIL. No lock or queue is shared between *)
(* tasks, so they interleave at every await. A task is followed through the *)
(* steps of process_one_movie that create and delete its transfer.  The     *)
(* service answers a POST /rest/transfer/magnet after it has created the    *)
(* transfer, with the created transfer or with the transfers of the account *)
(* as they are when the answer is made.                                     *)
(***************************************************************************)
MaxTasks     == 2    \* requests posted
MaxScanItems == 2    \* items of one scan that reach process_single_movie

TaskIds == 1..MaxTasks

NoJob  == <<0, 0>>
NoTask == [kind |-> "none", pc |-> "none", left |-> 0, tid |-> NoJob]

Jobs(acc) == {acc[n] : n \in 1..Len(acc)}

\* The account without the transfer x.
Without(acc, x) ==
    LET Keep(y) == y # x IN SelectSeq(acc, Keep)

\* The transfer task k submitted for the item it is at.
JobOf(k) == <<k, tasks[k].left>>

\* process_single_movie has returned in task k: a quick-add task ends, a
\* scan goes on with its next item.
ItemDone(k) ==
    IF tasks[k].kind = "auto_scan" /\ tasks[k].left > 1
    THEN [tasks[k] EXCEPT !.pc = "submit", !.left = @ - 1, !.tid = NoJob]
    ELSE [tasks[k] EXCEPT !.pc = "done", !.left = 0, !.tid = NoJob]

\* POST /admin/automation/quick-add by an admin.
quick_add_movie ==
    \E k \in TaskIds :
        /\ tasks[k] = NoTask
        /\ tasks' = [tasks EXCEPT ![k] =
                        [kind |-> "quick_add", pc |-> "queued", left |-> 1,
                         tid |-> NoJob]]
        /\ UNCHANGED account
        /\ UNCHANGED notReqVars

\* POST /admin/automation/auto-scan by an admin; n of the scanned items are
\* new and have an acceptable candidate.
auto_scan_tamilmv ==
    \E k \in TaskIds, n \in 0..MaxScanItems :
        /\ tasks[k] = NoTask
        /\ tasks' = [tasks EXCEPT ![k] =
                        [kind |-> "auto_scan", pc |-> "queued", left |-> n,
                         tid |-> NoJob]]
        /\ UNCHANGED account
        /\ UNCHANGED notReqVars

\* process_movie_background / auto_scan_background start running.
StartBackground ==
    \E k \in TaskIds :
        /\ tasks[k].pc = "queued"
        /\ tasks' = [tasks EXCEPT ![k].pc =
                        IF tasks[k].left = 0 THEN "done" ELSE "submit"]
        /\ UNCHANGED account
        /\ UNCHANGED notReqVars

\* add_magnet on the answer: the transfer object itself, or the last entry
\* of the transfer list ("pick newest").
newest(acc, own, shape) ==
    IF shape = "dict" THEN own ELSE acc[Len(acc)]

\* process_one_movie, step 1: the POST of add_magnet reaches the service,
\* which creates the transfer; or _post fails and add_magnet returns None.
TaskPostMagnet ==
    \E k \in TaskIds, ok \in BOOLEAN :
        /\ tasks[k].pc = "submit"
        /\ IF ok
           THEN /\ account' = Append(account, JobOf(k))
                /\ tasks' = [tasks EXCEPT ![k].pc = "submitted"]
           ELSE /\ account' = account
                /\ tasks' = [tasks EXCEPT ![k] = ItemDone(k)]
        /\ UNCHANGED notReqVars

\* add_magnet reads the transfer id out of the answer.
TaskAddMagnet ==
    \E k \in TaskIds, shape \in {"dict", "list"} :
        /\ tasks[k].pc = "submitted"
        /\ tasks' = [tasks EXCEPT ![k].pc = "poll",
                                  ![k].tid = newest(account, JobOf(k), shape)]
        /\ UNCHANGED account
        /\ UNCHANGED notReqVars

\* process_one_movie, step 2: wait_for_download; when it gives (False, None)
\* process_one_movie returns None at once.
TaskWaitForDownload ==
    \E k \in TaskIds, ok \in BOOLEAN :
        /\ tasks[k].pc = "poll"
        /\ tasks' = [tasks EXCEPT ![k] =
                        IF ok THEN [@ EXCEPT !.pc = "teardown"] ELSE ItemDone(k)]
        /\ UNCHANGED account
        /\ UNCHANGED notReqVars

\* process_one_movie, steps 3 to 5: every path after a finished download
\* calls delete_transfer_data(transfer_id, folder_id) before it returns.
TaskDeleteTransferData ==
    \E k \in TaskIds :
        /\ tasks[k].pc = "teardown"
        /\ account' = Without(account, tasks[k].tid)
        /\ tasks' = [tasks EXCEPT ![k] = ItemDone(k)]
        /\ UNCHANGED notReqVars

(***************************************************************************)
(* The verification wall: the gates of routes/movies.py, the router of      *)
(* routes/verify.py (the one main.py mounts) and the token routes of        *)
(* verification.py.  verification_utils and verification_tokens are not     *)
(* part of the sources at hand: mark_verified records the visitor as        *)
(* verified, should_require_verification asks for the wall once an          *)
(* unverified visitor has used up the free limit, save_verify_token and     *)
(* get_verify_token store and look up a token.                              *)
(***************************************************************************)
MaxVisitors     == 2
MaxVerifyTokens == 1
MaxFreeUsed     == 3    \* the gates are followed up to this many free uses

VERIFICATION_DEFAULT_FREE_LIMIT == 3

Visitors     == 1..MaxVisitors
VerifyTokens == 1..MaxVerifyTokens

should_require_verification(who) ==
    /\ wall_enabled
    /\ who \notin verified
    /\ free_used[who] >= VERIFICATION_DEFAULT_FREE_LIMIT

mark_verified(who) == verified \cup {who}

save_verify_token(tok) == stored_tokens \cup {tok}

\* None for a token that was never stored (or has expired).
get_verify_token(tok, fresh) ==
    IF tok \in stored_tokens /\ fresh THEN tok ELSE 0

increment_free_used(who) == [free_used EXCEPT ![who] = @ + 1]

\* verification.py, GET /verify/start: a new token is stored and the page
\* with the shortlink to /verify/check/{token} is shown.
verify_start ==
    \E who \in Visitors, tok \in VerifyTokens :
        /\ tok \notin stored_tokens
        /\ stored_tokens' = save_verify_token(tok)
        /\ response' = <<"verification.verify_start", who, "page">>
        /\ UNCHANGED <<wall_enabled, verified, free_used, marks, served>>
        /\ UNCHANGED notWallVars

\* verification.py, GET /verify/check/{token}
verify_check ==
    \E who \in Visitors, tok \in VerifyTokens, fresh \in BOOLEAN :
        /\ IF get_verify_token(tok, fresh) = 0
           THEN /\ response' = <<"verify_check", who, "verify_error">>
                /\ UNCHANGED <<verified, marks>>
           ELSE /\ verified' = mark_verified(who)
                /\ marks' = marks \cup {<<who, "verify_check", tok>>}
                /\ response' = <<"verify_check", who, "redirect_next">>
        /\ UNCHANGED <<wall_enabled, stored_tokens, free_used, served>>
        /\ UNCHANGED notWallVars

\* routes/verify.py, GET /verify/start: the page with a shortlink; the
\* token it generates goes into the link only.
routes_verify_start ==
    \E who \in Visitors :
        /\ response' = <<"routes.verify_start", who,
                         IF should_require_verification(who) THEN "page"
                         ELSE "redirect_next">>
        /\ UNCHANGED <<wall_enabled, verified, stored_tokens, free_used,
                       marks, served>>
        /\ UNCHANGED notWallVars

\* routes/verify.py, GET /verify/complete
verify_complete ==
    \E who \in Visitors :
        /\ verified' = mark_verified(who)
        /\ marks' = marks \cup {<<who, "verify_complete", 0>>}
        /\ response' = <<"verify_complete", who, "redirect_next">>
        /\ UNCHANGED <<wall_enabled, stored_tokens, free_used, served>>
        /\ UNCHANGED notWallVars

\* GET /movie/{movie_id}/watch; has_url: the movie is found and has a
\* watch_url.
movie_watch ==
    \E who \in Visitors, has_url \in BOOLEAN :
        /\ IF should_require_verification(who)
           THEN /\ response' = <<"movie_watch", who, "redirect_verify_start">>
                /\ UNCHANGED <<free_used, served>>
           ELSE /\ free_used[who] < MaxFreeUsed
                /\ free_used' = increment_free_used(who)
                /\ IF has_url
                   THEN /\ served' = served \cup {<<who, "movie_watch">>}
                        /\ response' =
                              <<"movie_watch", who, "redirect_movie_url">>
                   ELSE /\ served' = served
                        /\ response' =
                              <<"movie_watch", who, "redirect_movie_page">>
        /\ UNCHANGED <<wall_enabled, verified, stored_tokens, marks>>
        /\ UNCHANGED notWallVars

\* GET /movie/{movie_id}/download; has_url: the movie is found and has a
\* download_url.
movie_download ==
    \E who \in Visitors, has_url \in BOOLEAN :
        /\ IF should_require_verification(who)
           THEN /\ response' =
                      <<"movie_download", who, "redirect_verify_start">>
                /\ UNCHANGED <<free_used, served>>
           ELSE /\ free_used[who] < MaxFreeUsed
                /\ free_used' = increment_free_used(who)
                /\ IF has_url
                   THEN /\ served' = served \cup {<<who, "movie_download">>}
                        /\ response' =
                              <<"movie_download", who, "redirect_movie_url">>
                   ELSE /\ served' = served
                        /\ response' =
                              <<"movie_download", who, "redirect_movie_page">>
        /\ UNCHANGED <<wall_enabled, verified, stored_tokens, marks>>
        /\ UNCHANGED notWallVars

(***************************************************************************)
(* Specifications, one per component.                                       *)
(***************************************************************************)
SelectorIdle == torrents = <<>> /\ best_torrent = 0 /\ selPc = "idle"

FetchIdle ==
    /\ fpc = "idle" /\ transfer_id = NoneV /\ poll_i = 0 /\ folder_id = NoneV
    /\ listed = <<>> /\ file_id = NoneV /\ direct_link = "pending" /\ raised = FALSE
    /\ job_state = "none" /\ teardowns = 0 /\ calls = <<>>
    /\ polled = NotPolled

UploadIdle ==
    /\ upc = "idle"
    /\ hosts = [lulu_base |-> FALSE, lulu_key |-> FALSE, dg_base |-> FALSE,
                generic_base |-> FALSE, generic_key |-> FALSE]
    /\ watch_url = "None" /\ download_url = "None"
    /\ lulu_id = "None" /\ dg_id = "None"
    /\ ppd_result = "pending" /\ up_raised = FALSE
    /\ watch = NotCalled /\ down = NotCalled /\ gen = NotCalled

CatalogIdle ==
    /\ mpc = "idle" /\ movies = <<>> /\ runs = 0 /\ year = "None"
    /\ m_direct_link = "None" /\ poster_data = NoPosterData
    /\ m_ppd_result = NoPpd /\ poster_path = "None" /\ movie_id = 0
    /\ success = FALSE /\ m_title = movie_title /\ m_status = "Starting..."
    /\ fetch_task = "none" /\ search_task = "none" /\ steps = <<>>
    /\ db_outcome = "none" /\ errors = <<>>

BatchIdle ==
    /\ bpc = "idle" /\ b_movies = <<>> /\ b_idx = 0 /\ summary = NoSummary
    /\ b_connected = FALSE /\ b_aborted = FALSE /\ b_log = <<>>

TasksIdle == tasks = [k \in TaskIds |-> NoTask] /\ account = <<>>

LinkIdle == parent_text = <<>> /\ linkPc = "idle"

NoResponse == <<"none", 0, "none">>

WallIdle ==
    /\ wall_enabled = TRUE /\ verified = {} /\ stored_tokens = {}
    /\ free_used = [who \in Visitors |-> 0] /\ marks = {} /\ served = {}
    /\ response = NoResponse

InitSelector ==
    /\ torrents \in TorrentLists
    /\ best_torrent = 0
    /\ selPc = "call"
    /\ FetchIdle
    /\ UploadIdle
    /\ CatalogIdle
    /\ BatchIdle
    /\ TasksIdle
    /\ LinkIdle
    /\ WallIdle

NextSelector == Select

SpecSelector == InitSelector /\ [][NextSelector]_vars

InitFetch ==
    /\ fpc = "add_magnet" /\ transfer_id = NoneV /\ poll_i = 0 /\ folder_id = NoneV
    /\ listed = <<>> /\ file_id = NoneV /\ direct_link = "pending" /\ raised = FALSE
    /\ job_state = "none" /\ teardowns = 0 /\ calls = <<>>
    /\ polled = NotPolled
    /\ SelectorIdle
    /\ UploadIdle
    /\ CatalogIdle
    /\ BatchIdle
    /\ TasksIdle
    /\ LinkIdle
    /\ WallIdle

NextFetch ==
    \/ AddMagnet
    \/ Poll
    \/ PollTimeout
    \/ GetLargestFile
    \/ GetDirectLink
    \/ DeleteFolder
    \/ DeleteTransfer

SpecFetch == InitFetch /\ [][NextFetch]_vars

\* process_one_movie is awaited to its end: every request of _get and _post
\* has a timeout of 60 seconds and every sleep returns, so a step that can
\* be taken is taken.
SpecFetchLive == SpecFetch /\ WF_vars(NextFetch)

\* PPDUploader(): every combination of configured and missing settings.
InitUpload ==
    /\ upc = "lulu"
    /\ hosts \in [lulu_base : BOOLEAN, lulu_key : BOOLEAN, dg_base : BOOLEAN,
                   generic_base : BOOLEAN, generic_key : BOOLEAN]
    /\ watch_url = "None" /\ download_url = "None"
    /\ lulu_id = "None" /\ dg_id = "None"
    /\ ppd_result = "pending" /\ up_raised = FALSE
    /\ watch = NotCalled /\ down = NotCalled /\ gen = NotCalled
    /\ SelectorIdle
    /\ FetchIdle
    /\ CatalogIdle
    /\ BatchIdle
    /\ TasksIdle
    /\ LinkIdle
    /\ WallIdle

NextUpload ==
    \/ UploadLulu
    \/ UploadDg
    \/ UploadGeneric

SpecUpload == InitUpload /\ [][NextUpload]_vars

\* An empty collection, and calls for one (title, year) pair.
InitCatalog ==
    /\ mpc = "idle" /\ movies = <<>> /\ runs = 0
    /\ year \in Years
    /\ m_direct_link = "None" /\ poster_data = NoPosterData
    /\ m_ppd_result = NoPpd /\ poster_path = "None" /\ movie_id = 0
    /\ success = FALSE /\ m_title = movie_title /\ m_status = "Starting..."
    /\ fetch_task = "none" /\ search_task = "none" /\ steps = <<>>
    /\ db_outcome = "none" /\ errors = <<>>
    /\ SelectorIdle
    /\ FetchIdle
    /\ UploadIdle
    /\ BatchIdle
    /\ TasksIdle
    /\ LinkIdle
    /\ WallIdle

NextCatalog ==
    \/ QuickAdd
    \/ FetchReturns
    \/ SearchReturns
    \/ Join
    \/ RemoteUpload
    \/ PosterUpload
    \/ SaveToDatabase
    \/ NotifyAdmin

SpecCatalog == InitCatalog /\ [][NextCatalog]_vars

\* One batch on a collection that is empty or holds a document of an
\* earlier batch.
InitBatch ==
    /\ bpc = "scan" /\ b_movies = <<>> /\ b_idx = 0 /\ summary = NoSummary
    /\ b_connected = FALSE /\ b_aborted = FALSE /\ b_log = <<>>
    /\ mpc = "idle" /\ runs = 0 /\ year = "None"
    /\ movies \in {<<>>, <<StoredDoc>>}
    /\ m_direct_link = "None" /\ poster_data = NoPosterData
    /\ m_ppd_result = NoPpd /\ poster_path = "None" /\ movie_id = 0
    /\ success = FALSE /\ m_title = movie_title /\ m_status = "Starting..."
    /\ fetch_task = "none" /\ search_task = "none" /\ steps = <<>>
    /\ db_outcome = "none" /\ errors = <<>>
    /\ SelectorIdle
    /\ FetchIdle
    /\ UploadIdle
    /\ TasksIdle
    /\ LinkIdle
    /\ WallIdle

NextBatch ==
    \/ Scan
    \/ ExistenceCheck
    \/ ListAndSelect
    \/ Collect
    \/ Pause
    \/ FetchReturns
    \/ SearchReturns
    \/ Join
    \/ RemoteUpload
    \/ PosterUpload
    \/ SaveToDatabase
    \/ NotifyAdmin

SpecBatch == InitBatch /\ [][NextBatch]_vars

\* No request posted yet; up to MaxTasks requests arrive at any time.
InitTasks ==
    /\ TasksIdle
    /\ SelectorIdle
    /\ FetchIdle
    /\ UploadIdle
    /\ CatalogIdle
    /\ BatchIdle
    /\ LinkIdle
    /\ WallIdle

NextTasks ==
    \/ quick_add_movie
    \/ auto_scan_tamilmv
    \/ StartBackground
    \/ TaskPostMagnet
    \/ TaskAddMagnet
    \/ TaskWaitForDownload
    \/ TaskDeleteTransferData

SpecTasks == InitTasks /\ [][NextTasks]_vars

\* One magnet link of a topic page, with any text around it.
InitLinks ==
    /\ parent_text \in Texts
    /\ linkPc = "link"
    /\ SelectorIdle
    /\ FetchIdle
    /\ UploadIdle
    /\ CatalogIdle
    /\ BatchIdle
    /\ TasksIdle
    /\ WallIdle

NextLinks ==
    \/ GetTorrentLinks
    \/ Select

SpecLinks == InitLinks /\ [][NextLinks]_vars

\* No visitor has asked for anything yet; the wall is on or off.
InitWall ==
    /\ wall_enabled \in BOOLEAN
    /\ verified = {} /\ stored_tokens = {}
    /\ free_used = [who \in Visitors |-> 0] /\ marks = {} /\ served = {}
    /\ response = NoResponse
    /\ SelectorIdle
    /\ FetchIdle
    /\ UploadIdle
    /\ CatalogIdle
    /\ BatchIdle
    /\ TasksIdle
    /\ LinkIdle

NextWall ==
    \/ verify_start
    \/ verify_check
    \/ routes_verify_start
    \/ verify_complete
    \/ movie_watch
    \/ movie_download

SpecWall == InitWall /\ [][NextWall]_vars

(***************************************************************************)
(* Properties of select_best_torrent (SpecSelector).                        *)
(***************************************************************************)
HasBlacklisted(c) ==
    \E kw \in {s_CAM, s_TC, s_Telesync, s_480p, s_4K, s_2160p, s_HDCAM} :
        kw_in[kw, c.title]

\* The three tiers as the policy states them, in priority order.
InOptimal(c)      == kw_in[s_1080p, c.title]
                     /\ 100 <= c.size_gb /\ c.size_gb <= 300
InFallbackHigh(c) == kw_in[s_1080p, c.title]
                     /\ 50 <= c.size_gb /\ c.size_gb <= 1500
InFallbackLow(c)  == kw_in[s_720p, c.title]
                     /\ kw_in[s_HQ, c.title]
                     /\ 100 <= c.size_gb /\ c.size_gb <= 500

Tier1 == { i \in 1..Len(torrents) :
             ~HasBlacklisted(torrents[i]) /\ InOptimal(torrents[i]) }
Tier2 == { i \in 1..Len(torrents) :
             ~HasBlacklisted(torrents[i]) /\ InFallbackHigh(torrents[i]) }
Tier3 == { i \in 1..Len(torrents) :
             ~HasBlacklisted(torrents[i]) /\ InFallbackLow(torrents[i]) }
FirstTier == IF Tier1 # {} THEN Tier1 ELSE IF Tier2 # {} THEN Tier2 ELSE Tier3

\* C4: the returned candidate (if any) carries the quality tag and the
\* required keywords of a tier, has a size inside that tier's inclusive
\* range, and its label holds no blacklisted keyword.
C4_ReturnedMeetsTier ==
    (selPc = "returned" /\ best_torrent # 0) =>
        /\ best_torrent \in 1..Len(torrents)
        /\ ~HasBlacklisted(torrents[best_torrent])
        /\ \/ InOptimal(torrents[best_torrent])
           \/ InFallbackHigh(torrents[best_torrent])
           \/ InFallbackLow(torrents[best_torrent])

\* A candidate was returned although a blacklisted, strictly smaller
\* candidate of the right quality and size was in the list.
C4_Witness ==
    /\ selPc = "returned" /\ best_torrent # 0
    /\ \E j \in 1..Len(torrents) :
         /\ HasBlacklisted(torrents[j])
         /\ InFallbackHigh(torrents[j])
         /\ torrents[j].size_gb < torrents[best_torrent].size_gb

\* C5: the result is a smallest candidate of the first tier, in the order
\* optimal, fallback-high, fallback-low, that has a non-blacklisted match;
\* it is None exactly when every tier is empty.
C5_FirstTierSmallest ==
    (selPc = "returned") =>
        IF FirstTier = {} THEN best_torrent = 0
        ELSE /\ best_torrent \in FirstTier
             /\ \A j \in FirstTier :
                  torrents[best_torrent].size_gb <= torrents[j].size_gb

\* An optimal candidate was returned although a smaller candidate of the
\* wide 1080p tier and a 720p HQ candidate were available.
C5_Witness ==
    /\ selPc = "returned" /\ best_torrent \in Tier1
    /\ \E j \in Tier2 : torrents[j].size_gb < torrents[best_torrent].size_gb
    /\ Tier3 # {}

\* C6: no candidate of the tier the result was taken from is strictly
\* smaller than the result, and among the candidates of that tier with the
\* result's size the result is the first in input order.
C6_SmallestThenFirst ==
    (selPc = "returned" /\ best_torrent # 0) =>
        \A j \in FirstTier :
            /\ ~(torrents[j].size_gb < torrents[best_torrent].size_gb)
            /\ (torrents[j].size_gb = torrents[best_torrent].size_gb
                  => best_torrent <= j)

\* Two candidates of the winning tier tie on size and a third is larger.
C6_Witness ==
    /\ selPc = "returned" /\ best_torrent # 0
    /\ \E j, k \in FirstTier :
         /\ j # best_torrent
         /\ torrents[j].size_gb = torrents[best_torrent].size_gb
         /\ torrents[k].size_gb > torrents[best_torrent].size_gb

\* C7: an empty list, and a list none of whose candidates matches a tier
\* (all blacklisted included), yields None.
C7_NoneFound ==
    (selPc = "returned" /\ Tier1 = {} /\ Tier2 = {} /\ Tier3 = {}) =>
        best_torrent = 0

\* None was returned for a list of three candidates, one blacklisted, one
\* 720p without the HQ marker and one of unparsable size.
C7_Witness ==
    /\ selPc = "returned" /\ best_torrent = 0
    /\ Len(torrents) = 3
    /\ \E i, j, k \in 1..3 :
         /\ HasBlacklisted(torrents[i]) /\ InFallbackHigh(torrents[i])
         /\ torrents[j].title = "BluRay 720p" /\ torrents[j].size_gb = 100
         /\ torrents[k].title = "WEB-DL 1080p" /\ torrents[k].size_gb = 0

\* The empty list yields None.
C7_WitnessEmpty ==
    selPc = "returned" /\ torrents = <<>> /\ best_torrent = 0

(***************************************************************************)
(* Properties of SeedrHandler.process_one_movie (SpecFetch).                *)
(***************************************************************************)
CallsOf(kind) == { c \in 1..Len(calls) : calls[c][1] = kind }

\* C1: on every terminal path of a submitted job (success, remote job
\* failed, polling timed out) delete_transfer_data has been invoked exactly
\* once when process_one_movie returns, and the job entry was deleted.
C1_TeardownOnEveryPath ==
    (fpc = "done" /\ ~raised
        /\ job_state \in {"completed", "failed", "timed_out"}) =>
        /\ teardowns = 1
        /\ \E c \in CallsOf("delete_transfer") : calls[c][2] = transfer_id

\* The file get_largest_file picks from the listing of the folder.
LargestListed == listed[largest(listed)]

\* C2: after a success status carrying folder id F, whose listing has files
\* and whose largest file carries an id, process_one_movie has listed
\* folder F, requested a direct URL for a file of largest size in F, and
\* issued exactly one delete for folder F and one for the job id, both
\* after the direct-URL request, when it returns.
C2_SuccessPathCalls ==
    (/\ fpc = "done" /\ job_state = "completed" /\ Truthy(folder_id)
     /\ listed # <<>>
     /\ Truthy(Or(LargestListed.id, LargestListed.file_id))) =>
        /\ calls # <<>>
        /\ calls[1] = <<"list_folder", folder_id>>
        /\ \E c \in CallsOf("get_direct_link") :
                \E k \in 1..Len(listed) :
                    /\ \A j \in 1..Len(listed) : listed[j].size <= listed[k].size
                    /\ CanInt(Or(listed[k].id, listed[k].file_id))
                    /\ calls[c][2] = ToInt(Or(listed[k].id, listed[k].file_id))
        /\ Cardinality(CallsOf("delete_folder")) = 1
        /\ Cardinality(CallsOf("delete_transfer")) = 1
        /\ \A d \in CallsOf("delete_folder") : calls[d][2] = folder_id
        /\ \A d \in CallsOf("delete_transfer") : calls[d][2] = transfer_id
        /\ \A c \in CallsOf("get_direct_link") :
             \A d \in CallsOf("delete_folder") \cup CallsOf("delete_transfer") :
                c < d

\* C3: process_one_movie never raises: it ends with a direct URL or None,
\* and with None on every terminal non-success state.
C3_NeverRaises ==
    (fpc = "done") =>
        /\ ~raised
        /\ direct_link \in {"None", Url}
        /\ (job_state \in {"submit_failed", "failed", "timed_out"}
              => direct_link = "None")

(***************************************************************************)
(* Properties of PPDUploader.remote_upload (SpecUpload).                    *)
(***************************************************************************)
\* C8: remote_upload returns a dict whenever the stream adapter or the
\* download adapter gave a URL; it returns None only when the stream
\* adapter, the download adapter and the generic fallback (called whenever it
\* is configured) all gave nothing; a returned dict has a watch_url or a
\* download_url that is neither None nor empty.
C8_NonNullIffSomeUrl ==
    upc = "returned" =>
        /\ (watch.some \/ down.some) => ppd_result = "dict"
        /\ ppd_result = "None" =>
              /\ ~watch.some /\ ~down.some /\ ~gen.some
              /\ (hosts.generic_base /\ hosts.generic_key) => gen.called
        /\ ppd_result = "dict" =>
              \/ watch_url \notin {"None", ""}
              \/ download_url \notin {"None", ""}

\* Only the stream adapter gave a URL: the download adapter and the fallback
\* were called and gave nothing, and a dict is returned.
C8_Witness ==
    /\ upc = "returned" /\ ppd_result = "dict"
    /\ watch.some
    /\ down.called /\ ~down.some
    /\ gen.called /\ ~gen.some

\* Every configured adapter gave nothing and None is returned.
C8_WitnessNone ==
    /\ upc = "returned" /\ ppd_result = "None"
    /\ watch.called /\ down.called /\ gen.called

\* C9: no exception leaves remote_upload; an adapter that gave nothing does
\* not keep the later adapters from being called (the download adapter
\* whenever it is configured, the fallback whenever it is configured and no
\* download URL was obtained); when the stream adapter gave nothing and the
\* download adapter gave the URL u, the result is a dict with watch_url None
\* and download_url u.
C9_AdapterFailureNotFatal ==
    /\ ~up_raised
    /\ upc = "returned" =>
        /\ (hosts.lulu_base /\ hosts.lulu_key) => watch.called
        /\ hosts.dg_base => down.called
        /\ (hosts.generic_base /\ hosts.generic_key /\ ~down.some)
              => gen.called
        /\ (watch.called /\ ~watch.some /\ down.some) =>
              /\ ppd_result = "dict"
              /\ watch_url = "None"
              /\ download_url = down.url

\* The stream adapter was called and gave nothing, the download adapter gave
\* "https://x/y".
C9_Witness ==
    /\ upc = "returned"
    /\ watch.called /\ ~watch.some
    /\ down.some /\ down.url = "https://x/y"
    /\ ppd_result = "dict" /\ watch_url = "None"
    /\ download_url = "https://x/y"

(***************************************************************************)
(* Properties of process_single_movie and the movies collection            *)
(* (SpecCatalog).                                                           *)
(***************************************************************************)
\* The documents the key filter of _save_to_database selects.
KeyDocs == { k \in 1..Len(movies) : Matches(movies[k], movie_title, year) }

\* C10: once a run of process_single_movie for the (title, year) pair has
\* saved, the movies collection holds exactly one document for that key,
\* however many runs were made.
C10_OneDocumentPerKey ==
    (mpc = "done" /\ success) => Cardinality(KeyDocs) = 1

\* The steps the current call of process_single_movie has made.
Did(step) == \E k \in 1..Len(steps) : steps[k] = step

Count(step) == Cardinality({ k \in 1..Len(steps) : steps[k] = step })

NotifyAttempts ==
    { k \in 1..Len(steps) :
        steps[k] \in {"notify:sent", "notify:http_error",
                      "notify:exception"} }

\* C11: the download and the metadata search are started together and are
\* both over before any later step; a call whose download gave no direct
\* link (None, or an exception) ends with success = False and has made no
\* upload, poster, save or notification step, whatever the search gave.
C11_FetchFailureFailsItem ==
    /\ (mpc = "gather" /\ steps = <<>>) =>
          (fetch_task = "running" /\ search_task = "running")
    /\ mpc \in {"ppd", "poster", "save", "notify"} =>
          (fetch_task = "done" /\ search_task = "done")
    /\ (mpc = "done" /\ m_direct_link \in {"None", "raise"}) =>
          /\ ~success /\ movie_id = 0
          /\ \A k \in 1..Len(steps) : steps[k] \in {"fetch", "search"}

\* The search found a poster and the download gave nothing.
C11_Witness ==
    /\ mpc = "done" /\ m_direct_link = "None" /\ Did("fetch")
    /\ poster_data.some /\ poster_data.poster_url
    /\ ~success

\* The two coroutines run at the same time.
C11_WitnessConcurrent ==
    mpc = "gather" /\ fetch_task = "running" /\ search_task = "running"

\* C12: a call whose remote_upload returned None ends with success = False
\* and no movie_id, and has made no poster, save or notification step.
C12_UploadFailureFailsItem ==
    (mpc = "done" /\ Did("ppd") /\ ~m_ppd_result.some) =>
        /\ ~success /\ movie_id = 0
        /\ steps[Len(steps)] = "ppd"
        /\ \A k \in 1..Len(steps) : steps[k] \in {"fetch", "search", "ppd"}

C12_Witness ==
    /\ mpc = "done" /\ Did("ppd") /\ ~m_ppd_result.some
    /\ m_direct_link = "https://seedr/file" /\ poster_data.some
    /\ ~success

\* C13: once remote_upload gave a URL the save is always made; when no
\* poster was obtained (poster_path is None) and the database took the
\* write, the call succeeds and the written document carries the URLs and
\* no poster_path.
C13_MissingArtNotFatal ==
    (mpc \in {"notify", "done"} /\ m_ppd_result.some) =>
        /\ Did("save")
        /\ (poster_path = "None" /\ db_outcome = "ok") =>
              /\ success /\ movie_id # 0
              /\ \E k \in 1..Len(movies) :
                    /\ movies[k].id = movie_id
                    /\ Matches(movies[k], m_title, year)
                    /\ movies[k].poster_path = "None"
                    /\ movies[k].watch_url = m_ppd_result.watch_url
                    /\ movies[k].download_url = m_ppd_result.download_url

\* The poster upload failed and the item was added.
C13_Witness ==
    /\ mpc = "done" /\ Did("poster_upload_failed") /\ poster_path = "None"
    /\ success

\* The search gave nothing and the item was added.
C13_WitnessNoMetadata ==
    /\ mpc = "done" /\ ~poster_data.some /\ Did("save") /\ success

\* C18: a notification is attempted only after success, movie_id and
\* "Complete!" were set, and the notification step leaves success, movie_id
\* and status as they were, however it ends.
C18_NotifyKeepsOutcome ==
    /\ [](((mpc = "notify") \/ (NotifyAttempts # {})) =>
            (success /\ movie_id # 0 /\ m_status = "Complete!"
             /\ Did("save")))
    /\ [][mpc = "notify" =>
            (success' = success /\ movie_id' = movie_id
             /\ m_status' = m_status)]_vars

\* The notification raised inside _notify_admin_success.
C18_Witness ==
    /\ mpc = "done" /\ Did("notify:exception")
    /\ success /\ movie_id # 0 /\ m_status = "Complete!"

Events(kind) == { k \in 1..Len(b_log) : b_log[k][1] = kind }

\* The events that end the handling of an item.
Closing == {"exists", "no_torrents", "no_candidate", "added", "failed"}

Closed(i) == \E k \in 1..Len(b_log) : b_log[k][2] = i /\ b_log[k][1] \in Closing

C16_SummaryAddsUp ==
    bpc = "returned" =>
        /\ summary.scanned = Len(b_movies)
        /\ summary.scanned = summary.added + summary.skipped + summary.failed
        /\ summary.added = Cardinality(Events("added"))
        /\ summary.skipped = Cardinality(Events("exists"))
                             + Cardinality(Events("no_candidate"))
        /\ summary.failed = Cardinality(Events("no_torrents"))
                            + Cardinality(Events("failed"))

\* C17: an item the existence check finds in the collection is counted as
\* skipped and nothing else is done for it: no listing, no call of
\* process_single_movie, no write; and every listing or call for an item
\* comes after the existence check of that item.
C17_ExistingNeverReprocessed ==
    /\ [](/\ \A k \in Events("exists") :
               /\ k > 1 /\ b_log[k - 1] = <<"check", b_log[k][2]>>
               /\ \A j \in 1..Len(b_log) :
                     b_log[j][2] = b_log[k][2] =>
                        b_log[j][1] \in {"check", "exists"}
          /\ \A k \in Events("list") \cup Events("submit") :
               \E j \in 1..(k - 1) : b_log[j] = <<"check", b_log[k][2]>>
          /\ summary.skipped = Cardinality(Events("exists"))
                               + Cardinality(Events("no_candidate")))
    /\ [][(/\ bpc = "check" /\ bpc' # "check"
           /\ find_one(movies, b_movies[b_idx].title,
                       b_movies[b_idx].year) # 0) =>
             /\ bpc' \in {"check", "returned"}
             /\ UNCHANGED <<movies, mpc, steps, fetch_task>>
             /\ ~b_aborted' =>
                   (/\ summary'.skipped = summary.skipped + 1
                    /\ summary'.added = summary.added
                    /\ summary'.failed = summary.failed)]_vars

\* The second item is the pair the first item has just added.
C17_Witness ==
    /\ bpc = "returned" /\ ~b_aborted
    /\ \E k \in Events("added") : b_log[k][2] = 1
    /\ \E k \in Events("exists") : b_log[k][2] = 2
    /\ summary.added = 1 /\ summary.skipped = 1

\* C20: no exception ends the batch: the outer except branch is never
\* taken, and when auto_scan_tamilmv has returned every item of the list
\* was handled and counted.
C20_FailureConfinedToItem ==
    /\ ~b_aborted
    /\ bpc = "returned" => \A i \in 1..Len(b_movies) : Closed(i)

(***************************************************************************)
(* Properties of the background tasks (SpecTasks).                          *)
(***************************************************************************)
\* The tasks that have submitted a transfer and not yet deleted it.
Fetching ==
    {k \in TaskIds : tasks[k].pc \in {"submitted", "poll", "teardown"}}

\* C15: whatever quick-add and auto-scan requests arrive, at every moment at
\* most one transfer that was submitted and not yet torn down exists on the
\* Seedr account, over all the pipeline tasks that are running.
C15_OneJobInFlight ==
    /\ Len(account) <= 1
    /\ Cardinality(Fetching) <= 1

(***************************************************************************)
(* Properties of wait_for_download (SpecFetch).                             *)
(***************************************************************************)
\* The latest poll read neither a success nor a failure synonym: it got no
\* info, its status fetch raised, or the status was some other word.
Unrecognized(p) ==
    \/ p.kind \in {"no_info", "raised"}
    \/ p.kind = "info" /\ p.status \notin SuccessWords \cup FailureWords

\* The folder handle a poll reported, as wait_for_download returns it.
Captured(h) == IF Truthy(h) THEN IntV(h.v) ELSE NoneV

PollOutcome ==
    /\ (polled.kind = "info" /\ polled.status \in SuccessWords)
          => (job_state = "completed" /\ folder_id = Captured(polled.handle))
    /\ (polled.kind = "info" /\ polled.status \in FailureWords)
          => job_state = "failed"
    /\ Unrecognized(polled)
          => (job_state \in {"polling", "timed_out"} /\ ~raised)

\* C21: a poll that reads a success synonym ends the wait as completed with
\* the reported folder handle, one that reads a failure synonym ends it as
\* failed, and a poll that reads any other status, or whose status fetch
\* failed, leaves the job polling with one more attempt used and never ends
\* the wait as failed.
C21_PollOutcomes ==
    /\ []PollOutcome
    /\ [][(fpc = "poll" /\ poll_i < attempts /\ Unrecognized(polled'))
             => (fpc' = "poll" /\ poll_i' = poll_i + 1
                 /\ job_state' = "polling")]_vars

\* wait_for_download has ended without a poll that read a success or a
\* failure synonym.
EndedUnrecognized ==
    /\ fpc # "poll"
    /\ job_state \notin {"none", "submit_failed", "completed", "failed"}
    /\ Unrecognized(polled)

\* C22: wait_for_download always terminates; when no poll reads a success
\* or failure synonym it makes at most max_wait_minutes*60/poll_seconds
\* polls (120 with the defaults) and then ends as timed out, returning
\* (False, None).
C22_WaitTerminates ==
    /\ attempts = 120
    /\ [](poll_i <= attempts)
    /\ [](EndedUnrecognized
            => (job_state = "timed_out" /\ poll_i = attempts
                /\ ~raised /\ direct_link = "None"))
    /\ (fpc = "poll" ~> fpc # "poll")

(***************************************************************************)
(* More properties of auto_scan_tamilmv (SpecBatch).                        *)
(***************************************************************************)
\* C23: the loop goes from an item to the next one (or, after the last
\* item, to the return) only out of the pause of 5 seconds, whatever the
\* outcome of the item was.
C23_PauseAfterEveryItem ==
    [][(b_idx >= 1 /\ b_idx' = b_idx + 1) => bpc = "sleep"]_vars

(***************************************************************************)
(* More properties of remote_upload (SpecUpload).                           *)
(***************************************************************************)
\* C24: the generic adapter is called only when the download-host adapter
\* gave no download URL and the generic base URL and key are both set; it
\* is never called once a download URL is there; and the step that calls it
\* leaves watch_url as it was.
C24_FallbackOnlyWhenNeeded ==
    /\ [](gen.called =>
            (/\ ~down.some
             /\ hosts.generic_base /\ hosts.generic_key
             /\ upc = "returned"))
    /\ [](down.some => (~gen.called /\ download_url = down.url))
    /\ [][upc = "generic" => watch_url' = watch_url]_vars

\* The fallback gave the download URL after the download host failed, and
\* the watch URL of the first step is still there.
C24_Witness ==
    /\ upc = "returned" /\ gen.called /\ gen.some
    /\ down.called /\ ~down.some
    /\ watch.some /\ watch_url = watch.url /\ download_url = gen.url

\* The download host gave a URL and the configured fallback was not called.
C24_WitnessNotCalled ==
    /\ upc = "returned" /\ down.some /\ ~gen.called
    /\ hosts.generic_base /\ hosts.generic_key

(***************************************************************************)
(* Properties of _extract_size (SpecLinks).                                 *)
(***************************************************************************)
\* A number at i with a GB or MB unit at j and only white space between.
SizeAt(text, i, j) ==
    /\ i \in 1..Len(text) /\ j \in (i + 1)..Len(text)
    /\ text[i].k = "num"
    /\ text[j].k = "unit" /\ text[j].u \in {"GB", "gb", "MB", "mb"}
    /\ \A m \in (i + 1)..(j - 1) : text[m].k = "sp"

Parsable(text) == \E i, j \in 1..Len(text) : SizeAt(text, i, j)

\* C25: the size of the candidate is the first number of the text that
\* carries a gigabyte or megabyte unit, in gigabytes (a number of megabytes
\* divided by 1024, to the nearest hundredth); it is 0 when the text has no
\* such number; every tier's minimum is above 0, and a candidate of size 0
\* is never the one select_best_torrent returns.
C25_SizeNormalized ==
    /\ \A tier \in {"optimal", "fallback_1080p", "fallback_720p"} :
          SELECTION_RULES[tier].min_size_gb > 0
    /\ linkPc = "read" =>
          LET sz == torrents[1].size_gb IN
          /\ \A i, j \in 1..Len(parent_text) :
                (/\ SizeAt(parent_text, i, j)
                 /\ ~ \E i2 \in 1..(i - 1), j2 \in 1..Len(parent_text) :
                        SizeAt(parent_text, i2, j2))
                => IF parent_text[j].u \in {"GB", "gb"}
                   THEN sz = parent_text[i].v
                   ELSE /\ 2 * (1024 * sz - parent_text[i].v) <= 1024
                        /\ 2 * (parent_text[i].v - 1024 * sz) <= 1024
          /\ ~Parsable(parent_text) => sz = 0
          /\ (selPc = "returned" /\ best_torrent # 0)
                => torrents[best_torrent].size_gb # 0

\* "2100 MB" was read as 2.05 GB and the candidate was selected.
C25_Witness ==
    /\ linkPc = "read" /\ selPc = "returned" /\ best_torrent = 1
    /\ parent_text = <<Num(210000), Space, Unit("MB")>>
    /\ torrents[1].size_gb = 205

\* A 1080p candidate whose size could not be read is not selected.
C25_WitnessUnparsable ==
    /\ linkPc = "read" /\ selPc = "returned" /\ best_torrent = 0
    /\ ~Parsable(parent_text)
    /\ torrents[1].title = "WEB-DL 1080p" /\ torrents[1].size_gb = 0

(***************************************************************************)
(* Properties of the verification wall (SpecWall).                          *)
(***************************************************************************)
\* C26: a visitor is marked verified only by a request that presents a
\* token /verify/start issued and stored before, and a redirect to a
\* movie's watch or download URL is served to a visitor only while
\* should_require_verification is false for that visitor.
C26_WallNotBypassed ==
    /\ [](\A m \in marks : m[3] \in stored_tokens)
    /\ [](verified = {m[1] : m \in marks})
    /\ [][\A who \in Visitors :
             (\E route \in {"movie_watch", "movie_download"} :
                 <<who, route>> \in served' \ served
                 \/ response' = <<route, who, "redirect_movie_url">>)
             => ~should_require_verification(who)]_vars

(***************************************************************************)
(* More properties of process_one_movie (SpecFetch).                        *)
(***************************************************************************)
\* The delete requests sent so far.
Deletes == { k \in 1..Len(calls) :
               calls[k][1] \in {"delete_folder", "delete_transfer"} }

\* C27: when process_one_movie hands a direct URL back, which is when
\* process_single_movie can pass it to remote_upload, the folder that holds
\* the file is still there: no delete request was sent for the job and
\* delete_transfer_data was not entered.
C27_TeardownAfterUpload ==
    (fpc = "done" /\ direct_link = Url) => (teardowns = 0 /\ Deletes = {})

\* C28: a direct URL that process_one_movie returns is for a file of the
\* listing of the job's own folder, the folder handle the job reported; and
\* a job that completed, with or without reporting a folder handle, has its
\* folder deleted before process_one_movie returns.
C28_OwnContainerOnly ==
    /\ (fpc = "done" /\ direct_link = Url)
          => (/\ Truthy(folder_id)
              /\ \E k \in 1..Len(calls) : calls[k] = <<"list_folder", folder_id>>)
    /\ (fpc = "done" /\ job_state = "completed" /\ ~raised)
          => \E k \in Deletes : calls[k][1] = "delete_folder"

\* C29: while runs overlap, the id add_magnet returned to a task is the id
\* of the transfer that task's own call created, so the task polls its own
\* transfer; and a transfer leaves the account only by the teardown of the
\* task that submitted it.
C29_OwnJobOnly ==
    /\ [](\A k \in TaskIds :
            tasks[k].pc \in {"poll", "teardown"} => tasks[k].tid = JobOf(k))
    /\ [][\A x \in Jobs(account) \ Jobs(account') :
            \E k \in TaskIds : tasks[k].pc = "teardown" /\ x = JobOf(k)]_vars

(***************************************************************************)
(* More properties of process_single_movie (SpecCatalog).                   *)
(***************************************************************************)
\* C30: a result process_single_movie returns with success = True has a
\* movie_id and the status "Complete!"; one with success = False has no
\* movie_id and at least one entry in errors for the step that failed.
C30_ResultConsistent ==
    mpc = "done" =>
        /\ success => (movie_id # 0 /\ m_status = "Complete!")
        /\ ~success => (movie_id = 0 /\ errors # <<>>)

====
